---- MODULE Spec2Model ----
(***************************************************************************)
(* Kosik: line breaking (src/src/text.rs), page composition                 *)
(* (src/src/document/compositor.rs), the table of Roman numerals           *)
(* (src/src/lut.rs), the page loop of the writer                           *)
(* (src/src/document/writer.rs) and the numbering of list items by the     *)
(* reader (src/src/document/reader.rs).                                    *)
(*                                                                         *)
(* Indices of token slices and split points are the 0-based indices of the *)
(* Rust code; a TLA+ sequence s holds Rust's s[i] at s[i + 1].             *)
(***************************************************************************)
EXTENDS Integers, Sequences, FiniteSets, TLC

VARIABLES
    \* ---- line breaker (text.rs) ----
    tokens,        \* the token slice handed to a line breaker
    line_length,   \* the width budget handed to a line breaker
    lines,         \* the Vec<Line> a line breaker returned
    alg,           \* which line breaker produced `lines` ("none" before the call)
    fits_i,        \* the index handed to next_word_fits
    fits_x,        \* the column handed to next_word_fits
    fits,          \* what next_word_fits returned (empty before the call)
    \* ---- compositor (document/compositor.rs) ----
    pc,            \* "new" after Compositor::new, "flow" inside run's loop, "done" after run
    comp,          \* the Compositor: pages, footnotes, next_page_no, last_padding_after
    contact,       \* Compositor::contact (Option<Block> as a sequence of at most one block)
    first_page,    \* Compositor::first_page
    has_structure, \* Compositor::has_structure
    toc,           \* run's local `toc`: tuples <<page number, block>>
    nblocks,       \* number of blocks run's loop has consumed
    nelems,        \* number of elements whose blocks were consumed
    composed,      \* history: the blocks handed to compose, in order
    \* ---- lookup table (lut.rs) ----
    lut_text,      \* the content of the data file, a sequence of characters
    numerals,      \* RomanNumerals::numerals, a sequence of strings
    lut_pc,        \* "file" before RomanNumerals::new, "loaded" after it, "asked" after a lookup
    lut_i,         \* the argument of the last call of numeral
    lut_result,    \* what it returned (Option<&str> as a sequence of at most one string)
    \* ---- writer (document/writer.rs) ----
    word_count,    \* Typescript::word_count (Option<usize> as a sequence of at most one number)
    real_page_no,  \* Writer::real_page_no
    output,        \* what the writer wrote, page by page
    \* ---- reader (document/reader.rs) ----
    stack,         \* Reader::stack: the elements that are open, outermost first
    next_li_no,    \* Reader::next_li_no (Option<i32> as a sequence of at most one number)
    lis,           \* history: the Li elements made so far, each with the element it was opened in
    nevents,       \* number of XML events read
    next_part_no,     \* Reader::next_part_no
    next_chapter_no,  \* Reader::next_chapter_no
    next_section_no,  \* Reader::next_section_no
    heads,         \* history: the Part, Chapter and Section elements made so far
    \* ---- dot leader of a ToC entry (document/compositor.rs) ----
    entry_n,       \* the length of the first line of the entry
    entry_page_no, \* the page number stored with the entry
    entry_line     \* the first line with the leader added, a sequence of characters

textvars == <<tokens, line_length, lines, alg, fits_i, fits_x, fits>>

compvars == <<pc, comp, contact, first_page, has_structure, toc, nblocks, nelems, composed>>

lutvars == <<lut_text, numerals, lut_pc, lut_i, lut_result>>

writervars == <<word_count, real_page_no, output>>

readervars == <<stack, next_li_no, lis, nevents,
                next_part_no, next_chapter_no, next_section_no, heads>>

leadervars == <<entry_n, entry_page_no, entry_line>>

vars == <<tokens, line_length, lines, alg, fits_i, fits_x, fits,
          pc, comp, contact, first_page, has_structure, toc, nblocks, nelems, composed,
          lut_text, numerals, lut_pc, lut_i, lut_result,
          word_count, real_page_no, output,
          stack, next_li_no, lis, nevents,
          next_part_no, next_chapter_no, next_section_no, heads,
          entry_n, entry_page_no, entry_line>>

(***************************************************************************)
(* Bounds of the model                                                     *)
(***************************************************************************)
MaxTokens == 5
MaxLineLength == 8
MaxElements == 2
MaxFitTokens == 3
MaxColumn == 4

(***************************************************************************)
(* Program constants                                                       *)
(***************************************************************************)
INDENT == 5
TOP_LINE == 59
BOTTOM_LINE == 6
CHAPTER_SKIP == 11
PART_SKIP == 5
SECTION_SKIP == 5
MIDDLE_LINE == 27

(***************************************************************************)
(* Tokens.  A token is its character length and its format flags; `id` is  *)
(* its position in the input slice.                                        *)
(***************************************************************************)
FormatFlags == {"FS", "DLB", "MLB", "DOB"}

intersects(frm, flag) == flag \in frm

\* Token<WordData>::from(&str): no format flags
Word(n) == [len |-> n, frm |-> {}]
\* Token<SpaceData>::from(usize): a discretionary break that is discarded
Space(n) == [len |-> n, frm |-> {"DLB", "DOB"}]
\* Token::new(.., FormatFlags::DLB): a break candidate that is retained
\* (a hyphen or dash)
Hyphen == [len |-> 1, frm |-> {"DLB"}]
\* TokenType::LineBreak: length 0, mandatory break
LineBreak == [len |-> 0, frm |-> {"MLB"}]

TokenKinds == {Word(1), Word(3), Space(1), Hyphen, LineBreak}

TokenLists ==
    UNION {[1..n -> TokenKinds] : n \in 0..MaxTokens}

\* the slice with each token tagged by its position
WithIds(ts) == [k \in 1..Len(ts) |-> [id |-> k - 1, len |-> ts[k].len, frm |-> ts[k].frm]]

Min(a, b) == IF a < b THEN a ELSE b
Max(a, b) == IF a < b THEN b ELSE a

RECURSIVE SumLen(_)
SumLen(ts) == IF ts = <<>> THEN 0 ELSE ts[1].len + SumLen(Tail(ts))

\* &tokens[i..j]
Slice(ts, i, j) == SubSeq(ts, i + 1, j)

(***************************************************************************)
(* Line: the tokens of the slice it was built from (each contributes its   *)
(* text to a segment), plus the length of any segment inserted in front.   *)
(***************************************************************************)
LineFrom(ts) == [toks |-> ts, indent |-> 0]

\* Line::length
length(line) == line.indent + SumLen(line.toks)

(***************************************************************************)
(* next_word_fits                                                          *)
(***************************************************************************)
RECURSIVE nwf_loop(_, _, _, _)
RECURSIVE nwf_loop_CountDiscarded(_, _, _, _)
nwf_loop_CountDiscarded(ts, w, j, u) ==
    IF j < Len(ts)
    THEN LET frm == ts[j + 1].frm
             len == ts[j + 1].len
         IN  IF intersects(frm, "MLB") THEN u <= w
             ELSE IF intersects(frm, "DLB")
                  THEN u + len <= w
                  ELSE nwf_loop_CountDiscarded(ts, w, j + 1, u + len)
    ELSE u <= w

nwf_loop(ts, w, j, u) ==
    IF j < Len(ts)
    THEN LET frm == ts[j + 1].frm
             len == ts[j + 1].len
         IN  IF intersects(frm, "MLB") THEN u <= w
             ELSE IF intersects(frm, "DLB")
                  THEN IF intersects(frm, "DOB") THEN u <= w ELSE u + len <= w
                  ELSE nwf_loop(ts, w, j + 1, u + len)
    ELSE u <= w

next_word_fits_NoLookahead(ts, w, i, x) == x + ts[i + 1].len <= w

next_word_fits(ts, w, i, x) == nwf_loop(ts, w, i + 1, x + ts[i + 1].len)

(***************************************************************************)
(* The split list: tuples <<index, discard>>                               *)
(***************************************************************************)
RECURSIVE fill_loop(_, _, _, _, _)
RECURSIVE fill_loop_BreakEarly(_, _, _, _, _)
fill_loop_BreakEarly(ts, w, i, x, splits) ==
    IF i >= Len(ts) THEN splits
    ELSE LET frm == ts[i + 1].frm
         IN  IF intersects(frm, "MLB")
             THEN fill_loop_BreakEarly(ts, w, i + 1, 0, Append(splits, <<i + 1, TRUE>>))
             ELSE IF intersects(frm, "DLB")
                  THEN IF ~next_word_fits(ts, w - 1, i, x)
                       THEN fill_loop_BreakEarly(ts, w, i + 1, 0,
                                Append(splits, <<i + 1, intersects(frm, "DOB")>>))
                       ELSE fill_loop_BreakEarly(ts, w, i + 1, x + ts[i + 1].len, splits)
                  ELSE fill_loop_BreakEarly(ts, w, i + 1, x + ts[i + 1].len, splits)

fill_loop(ts, w, i, x, splits) ==
    IF i >= Len(ts) THEN splits
    ELSE LET frm == ts[i + 1].frm
         IN  IF intersects(frm, "MLB")
             THEN fill_loop(ts, w, i + 1, 0, Append(splits, <<i + 1, TRUE>>))
             ELSE IF intersects(frm, "DLB")
                  THEN IF ~next_word_fits(ts, w, i, x)
                       THEN fill_loop(ts, w, i + 1, 0,
                                Append(splits, <<i + 1, intersects(frm, "DOB")>>))
                       ELSE fill_loop(ts, w, i + 1, x + ts[i + 1].len, splits)
                  ELSE fill_loop(ts, w, i + 1, x + ts[i + 1].len, splits)

fill_splits(ts, w) ==
    Append(fill_loop(ts, w, 0, 0, <<<<0, FALSE>>>>), <<Len(ts), FALSE>>)

RECURSIVE balance_loop(_, _, _, _, _)
balance_loop(ts, cutoff, i, x, splits) ==
    IF i >= Len(ts) THEN splits
    ELSE LET frm == ts[i + 1].frm
         IN  IF intersects(frm, "MLB")
             THEN balance_loop(ts, cutoff, i + 1, 0, Append(splits, <<i + 1, TRUE>>))
             ELSE IF intersects(frm, "DLB")
                  THEN IF x + ts[i + 1].len >= cutoff
                       THEN balance_loop(ts, cutoff, i + 1, 0,
                                Append(splits, <<i + 1, intersects(frm, "DOB")>>))
                       ELSE balance_loop(ts, cutoff, i + 1, x + ts[i + 1].len, splits)
                  ELSE balance_loop(ts, cutoff, i + 1, x + ts[i + 1].len, splits)

balance_splits(ts, w) ==
    LET text_length == SumLen(ts)
        height == (text_length \div w) + 1
        cutoff == text_length \div height
    IN  Append(balance_loop(ts, cutoff, 0, 0, <<<<0, FALSE>>>>), <<Len(ts), FALSE>>)

RECURSIVE hang_loop(_, _, _, _, _)
hang_loop(ts, w, i, x, splits) ==
    IF i >= Len(ts) THEN splits
    ELSE LET frm == ts[i + 1].frm
         IN  IF intersects(frm, "MLB")
             THEN hang_loop(ts, w, i + 1, 0, Append(splits, <<i + 1, TRUE>>))
             ELSE IF intersects(frm, "DLB")
                  THEN IF ~next_word_fits(ts, w, i, x)
                       THEN LET pushed == Append(splits, <<i + 1, intersects(frm, "DOB")>>)
                                w2 == IF Len(pushed) = 2  \* first break
                                      THEN w - Min(INDENT, w - 1)
                                      ELSE w
                            IN  hang_loop(ts, w2, i + 1, 0, pushed)
                       ELSE hang_loop(ts, w, i + 1, x + ts[i + 1].len, splits)
                  ELSE hang_loop(ts, w, i + 1, x + ts[i + 1].len, splits)

hang_splits(ts, w) ==
    Append(hang_loop(ts, w, 0, 0, <<<<0, FALSE>>>>), <<Len(ts), FALSE>>)

(***************************************************************************)
(* splits.windows(2): one Line per non-empty range                         *)
(***************************************************************************)
\* the end of the range of window k: the split token is dropped if discard
RangeEnd_KeepAll(splits, k) == splits[k + 1][1]

RangeEnd(splits, k) ==
    IF splits[k + 1][2] THEN splits[k + 1][1] - 1 ELSE splits[k + 1][1]

RECURSIVE lines_loop(_, _, _, _, _)
RECURSIVE lines_loop_KeepEmpty(_, _, _, _, _)
lines_loop_KeepEmpty(ts, splits, k, hanging, acc) ==
    IF k >= Len(splits) THEN acc
    ELSE LET line == LineFrom(Slice(ts, splits[k][1], RangeEnd(splits, k)))
             out == IF hanging /\ acc # <<>>
                    THEN [line EXCEPT !.indent = INDENT]
                    ELSE line
         IN  lines_loop_KeepEmpty(ts, splits, k + 1, hanging, Append(acc, out))

lines_loop(ts, splits, k, hanging, acc) ==
    IF k >= Len(splits) THEN acc
    ELSE LET i == splits[k][1]
             j == RangeEnd(splits, k)
         IN  IF j - i > 0
             THEN LET line == LineFrom(Slice(ts, i, j))
                      out == IF hanging /\ acc # <<>>
                             THEN [line EXCEPT !.indent = INDENT]
                             ELSE line
                  IN  lines_loop(ts, splits, k + 1, hanging, Append(acc, out))
             ELSE lines_loop(ts, splits, k + 1, hanging, acc)

linebreak_fill_AtCutoff(ts, w) == lines_loop(ts, balance_splits(ts, w), 1, FALSE, <<>>)

linebreak_fill(ts, w) == lines_loop(ts, fill_splits(ts, w), 1, FALSE, <<>>)

linebreak_balance(ts, w) == lines_loop(ts, balance_splits(ts, w), 1, FALSE, <<>>)

linebreak_hang_NoIndent(ts, w) == lines_loop(ts, hang_splits(ts, w), 1, FALSE, <<>>)

linebreak_hang(ts, w) == lines_loop(ts, hang_splits(ts, w), 1, TRUE, <<>>)

(***************************************************************************)
(* Specification of the line breakers: a token slice and a budget are      *)
(* chosen, then one of the three algorithms is applied to them.            *)
(***************************************************************************)
InitText ==
    /\ tokens \in {WithIds(ts) : ts \in TokenLists}
    /\ line_length \in 1..MaxLineLength
    /\ lines = <<>>
    /\ alg = "none"
    /\ fits_i = 0
    /\ fits_x = 0
    /\ fits = <<>>
    /\ first_page = 1
    /\ has_structure = FALSE
    /\ pc = "new"
    /\ comp = [pages |-> <<>>, footnotes |-> <<>>, next_page_no |-> -1,
               last_padding_after |-> 0]
    /\ contact = <<>>
    /\ toc = <<>>
    /\ nblocks = 0
    /\ nelems = 0
    /\ composed = <<>>
    /\ lut_text = <<>>
    /\ numerals = <<>>
    /\ lut_pc = "file"
    /\ lut_i = 0
    /\ lut_result = <<>>
    /\ word_count = <<>>
    /\ real_page_no = 1
    /\ output = <<>>
    /\ stack = <<>>
    /\ next_li_no = <<>>
    /\ lis = <<>>
    /\ nevents = 0
    /\ next_part_no = 1
    /\ next_chapter_no = 1
    /\ next_section_no = 1
    /\ heads = <<>>
    /\ entry_n = 0
    /\ entry_page_no = 0
    /\ entry_line = <<>>

Fill ==
    /\ alg = "none"
    /\ lines' = linebreak_fill(tokens, line_length)
    /\ alg' = "fill"
    /\ UNCHANGED <<tokens, line_length, fits_i, fits_x, fits>>
    /\ UNCHANGED compvars
    /\ UNCHANGED lutvars
    /\ UNCHANGED writervars
    /\ UNCHANGED readervars
    /\ UNCHANGED leadervars

Balance ==
    /\ alg = "none"
    /\ lines' = linebreak_balance(tokens, line_length)
    /\ alg' = "balance"
    /\ UNCHANGED <<tokens, line_length, fits_i, fits_x, fits>>
    /\ UNCHANGED compvars
    /\ UNCHANGED lutvars
    /\ UNCHANGED writervars
    /\ UNCHANGED readervars
    /\ UNCHANGED leadervars

Hang ==
    /\ alg = "none"
    /\ lines' = linebreak_hang(tokens, line_length)
    /\ alg' = "hang"
    /\ UNCHANGED <<tokens, line_length, fits_i, fits_x, fits>>
    /\ UNCHANGED compvars
    /\ UNCHANGED lutvars
    /\ UNCHANGED writervars
    /\ UNCHANGED readervars
    /\ UNCHANGED leadervars

NextText == Fill \/ Balance \/ Hang

SpecText == InitText /\ [][NextText]_vars

(***************************************************************************)
(* Specification of next_word_fits: a token slice, a budget, an index into *)
(* the slice and a column are chosen, then the function is applied.        *)
(***************************************************************************)
FitTokenLists ==
    UNION {[1..n -> TokenKinds] : n \in 0..MaxFitTokens}

InitFits ==
    /\ tokens \in {WithIds(ts) : ts \in FitTokenLists}
    /\ line_length \in 1..MaxLineLength
    /\ lines = <<>>
    /\ alg = "none"
    /\ fits_i = 0
    /\ fits_x = 0
    /\ fits = <<>>
    /\ first_page = 1
    /\ has_structure = FALSE
    /\ pc = "new"
    /\ comp = [pages |-> <<>>, footnotes |-> <<>>, next_page_no |-> -1,
               last_padding_after |-> 0]
    /\ contact = <<>>
    /\ toc = <<>>
    /\ nblocks = 0
    /\ nelems = 0
    /\ composed = <<>>
    /\ lut_text = <<>>
    /\ numerals = <<>>
    /\ lut_pc = "file"
    /\ lut_i = 0
    /\ lut_result = <<>>
    /\ word_count = <<>>
    /\ real_page_no = 1
    /\ output = <<>>
    /\ stack = <<>>
    /\ next_li_no = <<>>
    /\ lis = <<>>
    /\ nevents = 0
    /\ next_part_no = 1
    /\ next_chapter_no = 1
    /\ next_section_no = 1
    /\ heads = <<>>
    /\ entry_n = 0
    /\ entry_page_no = 0
    /\ entry_line = <<>>

NextWordFits ==
    /\ fits = <<>>
    /\ \E i \in 0..(Len(tokens) - 1) :
          \E x \in 0..MaxColumn :
              /\ fits_i' = i
              /\ fits_x' = x
              /\ fits' = <<next_word_fits(tokens, line_length, i, x)>>
    /\ UNCHANGED <<tokens, line_length, lines, alg>>
    /\ UNCHANGED compvars
    /\ UNCHANGED lutvars
    /\ UNCHANGED writervars
    /\ UNCHANGED readervars
    /\ UNCHANGED leadervars

NextFits == NextWordFits

SpecFits == InitFits /\ [][NextFits]_vars

(***************************************************************************)
(* Page compositor: data                                                   *)
(*                                                                         *)
(* A Line of a block is identified by the block it came from (`blk`, the   *)
(* position of the block in the input) and its index in the block (`idx`); *)
(* a footnote line also carries the label of its footnote.  `leader` is    *)
(* the page number of the dot leader compose_toc appends (<<>> if none).   *)
(* A row of a page is Some(line) or None.                                  *)
(***************************************************************************)
None == [src |-> "none", blk |-> 0, idx |-> 0, label |-> "", note_refs |-> <<>>,
         leader |-> <<>>]

Some(line) == line

Line(blk, idx, note_refs) ==
    [src |-> "line", blk |-> blk, idx |-> idx, label |-> "", note_refs |-> note_refs,
     leader |-> <<>>]

NoteLine(blk, label, idx) ==
    [src |-> "note", blk |-> blk, idx |-> idx, label |-> label, note_refs |-> <<>>,
     leader |-> <<>>]

Block(ls, fns, spacing, pb, pa, tag) ==
    [lines |-> ls, footnotes |-> fns, line_spacing |-> spacing,
     padding_before |-> pb, padding_after |-> pa, tag |-> tag,
     id |-> 0, heading |-> 0]

Page(number) ==
    [number |-> number, height |-> TOP_LINE - BOTTOM_LINE + 1,
     lines |-> <<>>, footer |-> <<>>]

\* Block::count_lines.  The subtraction is on usize: for a double-spaced
\* block without lines it panics in a debug build and wraps in a release
\* build; the blocks count_lines is applied to here (footnote blocks and
\* table-of-contents entries) are single-spaced or have a line.
block_count_lines_AlwaysSingle(block) == Len(block.lines)

block_count_lines(block) ==
    IF block.line_spacing = "Double"
    THEN Len(block.lines) * 2 - 1
    ELSE Len(block.lines)

\* count_lines(&BlockList)
RECURSIVE count_lines_loop(_, _, _, _)
count_lines_loop(blocks, i, n, last_padding_after) ==
    IF i >= Len(blocks) THEN n
    ELSE LET block == blocks[i + 1]
             pad == IF i > 0 /\ block.padding_before >= 0
                    THEN Max(block.padding_before, last_padding_after)
                    ELSE 0
         IN  count_lines_loop(blocks, i + 1, n + pad + block_count_lines(block),
                              block.padding_after)

count_lines(blocks) == count_lines_loop(blocks, 0, 0, 0)

(***************************************************************************)
(* Compositor state c = [pages, footnotes, next_page_no,                   *)
(* last_padding_after]; footnotes is the HashMap, a function on its keys.  *)
(***************************************************************************)
cur_page(c) == c.pages[Len(c.pages)]

start_a_new_page_NoIncrement(c) ==
    [c EXCEPT !.pages = Append(@, Page(c.next_page_no))]

start_a_new_page(c) ==
    [c EXCEPT !.pages = Append(@, Page(c.next_page_no)),
              !.next_page_no = @ + 1]

push_line_Prepend(c, row) ==
    [c EXCEPT !.pages[Len(c.pages)].lines = <<row>> \o @]

\* self.cur_page().lines.push(row)
push_line(c, row) ==
    [c EXCEPT !.pages[Len(c.pages)].lines = Append(@, row)]

push_footer_FirstPage(c, row) ==
    [c EXCEPT !.pages[1].footer = Append(@, row)]

\* self.cur_page().footer.push(row)
push_footer(c, row) ==
    [c EXCEPT !.pages[Len(c.pages)].footer = Append(@, row)]

\* self.footnotes.insert(label, footnote)
footnotes_insert(fmap, label, footnote) ==
    [l \in (DOMAIN fmap) \cup {label} |-> IF l = label THEN footnote ELSE fmap[l]]

\* self.footnotes.remove(label)
footnotes_remove(fmap, label) ==
    [l \in (DOMAIN fmap) \ {label} |-> fmap[l]]

\* cur_page: `assert!(!self.pages.is_empty())`.  Every loop of the compositor
\* goes through cur_page in each iteration; the loops below state it as
\* their loop invariant, which also makes TLC evaluate the compositor state
\* of an iteration before it enters the next one.
has_cur_page(c) == c.pages # <<>>

\* `for _ in 0..padding { self.cur_page().lines.push(None) }`
RECURSIVE push_padding(_, _)
push_padding(c, n) ==
    IF n <= 0 \/ ~has_cur_page(c) THEN c
    ELSE push_padding(push_line(c, None), n - 1)

(***************************************************************************)
(* compose_block                                                           *)
(***************************************************************************)
\* "Transfer footnotes to the hash map."
RECURSIVE transfer_footnotes(_, _)
transfer_footnotes(fmap, fns) ==
    IF fns = <<>> THEN fmap
    ELSE transfer_footnotes(footnotes_insert(fmap, fns[1][1], fns[1][2]), Tail(fns))

\* "Count the total number of footnote lines."
RECURSIVE footer_height_loop(_, _, _, _)
footer_height_loop(fmap, note_refs, footer_height, j) ==
    IF note_refs = <<>> THEN footer_height
    ELSE LET label == note_refs[1]
             h1 == IF j > 0 THEN footer_height + 1 ELSE footer_height
         IN  IF label \in DOMAIN fmap
             THEN footer_height_loop(fmap, Tail(note_refs),
                                     h1 + count_lines(fmap[label]), j + 1)
             ELSE footer_height_loop(fmap, Tail(note_refs), h1, j)

\* the lines of one footnote block, pushed onto the footer; the block is the
\* j-th of m blocks (0-based)
push_footnote_line(c, block, j, m, k) ==
    LET n == Len(block.lines)
        c1 == push_footer(c, Some(block.lines[k + 1]))
    IN  IF (j < m - 1 \/ k < n - 1) /\ block.line_spacing = "Double"
        THEN push_footer(c1, None)
        ELSE c1

RECURSIVE push_footnote_lines(_, _, _, _, _)
push_footnote_lines(c, block, j, m, k) ==
    IF k >= Len(block.lines) \/ ~has_cur_page(c) THEN c
    ELSE push_footnote_lines(push_footnote_line(c, block, j, m, k), block, j, m, k + 1)

RECURSIVE push_footnote_blocks(_, _, _)
push_footnote_blocks(c, blocks, j) ==
    IF j >= Len(blocks) THEN c
    ELSE push_footnote_blocks(
             push_footnote_lines(c, blocks[j + 1], j, Len(blocks), 0), blocks, j + 1)

\* "Add any footnotes to the current page."
RECURSIVE place_footnotes(_, _)
place_footnotes(c, note_refs) ==
    IF note_refs = <<>> THEN c
    ELSE LET label == note_refs[1]
         IN  IF label \in DOMAIN c.footnotes
             THEN LET blocks == c.footnotes[label]
                      c1 == [c EXCEPT !.footnotes = footnotes_remove(@, label)]
                      \* "Skip a space between footnotes."
                      c2 == IF cur_page(c1).footer # <<>>
                            THEN push_footer(c1, None)
                            ELSE c1
                  IN  place_footnotes(push_footnote_blocks(c2, blocks, 0),
                                      Tail(note_refs))
             ELSE place_footnotes(c, Tail(note_refs))

\* the first capacity check of a line with note references
footnote_remainder(c, line) ==
    LET footer_height == footer_height_loop(c.footnotes, line.note_refs, 0, 0)
        r == cur_page(c).height - Len(cur_page(c).lines)
             - 1               \* for the current line
             - footer_height
             - 2               \* for the footnote separator
    IN  IF cur_page(c).footer # <<>>
        THEN r - 1 - Len(cur_page(c).footer)
        ELSE r

\* the footnote part of one loop iteration of compose_block
compose_line_footnotes(c, line) ==
    IF line.note_refs # <<>>
    THEN LET c1 == IF footnote_remainder(c, line) < 1
                   THEN start_a_new_page(c)
                   ELSE c
         IN  place_footnotes(c1, line.note_refs)
    ELSE c

line_remainder_IgnoreFooter(c) ==
    cur_page(c).height - Len(cur_page(c).lines) - 1

\* "Now back to the current line."
line_remainder(c) ==
    LET r == cur_page(c).height - Len(cur_page(c).lines) - 1
    IN  IF cur_page(c).footer # <<>>
        THEN r - (Len(cur_page(c).footer) + 2)
        ELSE r

\* one iteration of the line loop of compose_block: line i of the block
compose_line_BlankIfOneRowFree(c, block, i) ==
    LET line == block.lines[i + 1]
        page_height == Len(block.lines)
        c1 == compose_line_footnotes(c, line)
        c2 == IF line_remainder(c1) < 1 THEN start_a_new_page(c1) ELSE c1
        c3 == push_line(c2, Some(line))
    IN  IF /\ i < page_height - 1
           /\ block.line_spacing = "Double"
           /\ cur_page(c3).height - Len(cur_page(c3).lines) > 0
        THEN push_line(c3, None)
        ELSE c3

compose_line(c, block, i) ==
    LET line == block.lines[i + 1]
        page_height == Len(block.lines)
        c1 == compose_line_footnotes(c, line)
        c2 == IF line_remainder(c1) < 1 THEN start_a_new_page(c1) ELSE c1
        c3 == push_line(c2, Some(line))
    IN  IF /\ i < page_height - 1
           /\ block.line_spacing = "Double"
           /\ cur_page(c3).height - Len(cur_page(c3).lines) > 1
        THEN push_line(c3, None)
        ELSE c3

RECURSIVE compose_lines(_, _, _)
compose_lines(c, block, i) ==
    IF i >= Len(block.lines) \/ ~has_cur_page(c) THEN c
    ELSE compose_lines(compose_line(c, block, i), block, i + 1)

compose_block(c, block) ==
    compose_lines([c EXCEPT !.footnotes = transfer_footnotes(@, block.footnotes)],
                  block, 0)

(***************************************************************************)
(* compose                                                                 *)
(***************************************************************************)
top_padding_Abs(block) ==
    IF block.padding_before < 0
    THEN -block.padding_before
    ELSE block.padding_before

\* the value compose stores in *padding_before
top_padding(block) ==
    IF block.padding_before < 0
    THEN -block.padding_before - 1
    ELSE block.padding_before

collapse_padding_Sum(before, after) == before + after

\* max(*padding_before as usize, self.last_padding_after)
collapse_padding(before, after) == Max(before, after)

compose_Unnumbered(c, block) ==
    LET c1 == IF block.padding_before < 0
              THEN [start_a_new_page([c EXCEPT !.next_page_no = -1])
                        EXCEPT !.last_padding_after = 0]
              ELSE c
        padding == collapse_padding(top_padding(block), c1.last_padding_after)
        c2 == [c1 EXCEPT !.last_padding_after = block.padding_after]
    IN  compose_block(push_padding(c2, padding), block)

compose(c, block) ==
    LET c1 == IF block.padding_before < 0
              THEN [start_a_new_page(c) EXCEPT !.last_padding_after = 0]
              ELSE c
        padding == collapse_padding(top_padding(block), c1.last_padding_after)
        c2 == [c1 EXCEPT !.last_padding_after = block.padding_after]
    IN  compose_block(push_padding(c2, padding), block)

(***************************************************************************)
(* compose_toc                                                             *)
(***************************************************************************)
toc_header_NoPageBreak(id) ==
    [Block(<<[Line(id, 1, <<>>) EXCEPT !.src = "toc-header"]>>, <<>>, "Single",
           0, CHAPTER_SKIP, "ToC") EXCEPT !.id = id]

\* the "Table of Contents" header block; id is its position after the input
toc_header(id) ==
    [Block(<<[Line(id, 1, <<>>) EXCEPT !.src = "toc-header"]>>, <<>>, "Single",
           -1, CHAPTER_SKIP, "ToC") EXCEPT !.id = id]

\* the entry with the dot leader and the page number added to its first line
toc_with_leader(page_no, block) ==
    [block EXCEPT !.lines[1].leader = <<page_no>>]

\* one iteration of the entry loop of compose_toc
compose_toc_entry(c, page_no, block0) ==
    IF block0.lines # <<>>
    THEN LET block == toc_with_leader(page_no, block0)
             remainder == cur_page(c).height - Len(cur_page(c).lines)
                          - 1   \* for the current line
                          - 1   \* for the ToC entry separator
             c1 == IF remainder < block_count_lines(block)
                   THEN [start_a_new_page(c) EXCEPT !.last_padding_after = 0]
                   ELSE c
         IN  compose(c1, block)
    ELSE c

RECURSIVE compose_toc_entries(_, _)
compose_toc_entries(c, blocks) ==
    IF blocks = <<>> THEN c
    ELSE compose_toc_entries(compose_toc_entry(c, blocks[1][1], blocks[1][2]),
                             Tail(blocks))

compose_toc(c, blocks, header_id) ==
    compose_toc_entries(
        compose([c EXCEPT !.next_page_no = -1], toc_header(header_id)),
        blocks)

(***************************************************************************)
(* The blocks the formatter hands to the compositor, element by element    *)
(* (document/formatter.rs).  b is the number of blocks before the element: *)
(* the blocks of the element get the ids b + 1, b + 2, ...                 *)
(***************************************************************************)
NoRefs(n) == [i \in 1..n |-> <<>>]

Lines(id, refs) == [i \in 1..Len(refs) |-> Line(id, i, refs[i])]

WithId(block, id) == [block EXCEPT !.id = id]

\* From<TextElement<P>> for Block
P(id, refs, fns, spacing) ==
    WithId(Block(Lines(id, refs), fns, spacing, 0,
                 IF spacing = "Double" THEN 1 ELSE 0, "None"), id)

\* format_footnotes: a footnote is the list of its paragraphs; shape gives
\* the number of lines and the line spacing of each paragraph
Footnote(id, label, shape) ==
    <<label,
      [j \in 1..Len(shape) |->
          [Block([k \in 1..shape[j][1] |-> NoteLine(id, label, 100 * j + k)],
                 <<>>, shape[j][2], 0,
                 IF shape[j][2] = "Double" THEN 1 ELSE 0, "None")
           EXCEPT !.id = id]]>>

\* a footnote element without P children: format_footnotes pushes the label
\* with an empty block list
FnEmpty == <<>>
\* a double-spaced footnote with a paragraph of one line and a paragraph
\* (indent 0) without tokens, which linebreak_fill gives no line
FnBlankPar == <<<<1, "Double">>, <<0, "Double">>>>
FnShort == <<<<5, "Single">>>>
FnDouble == <<<<2, "Double">>, <<1, "Single">>>>
FnLong == <<<<51, "Single">>>>
FnPage == <<<<53, "Single">>>>

\* format_toc_entry!: heading is the id of the heading block of the element
TocEntry(id, n, heading) ==
    [Block(Lines(id, NoRefs(n)), <<>>, "Single", 0, 1, "ToC")
     EXCEPT !.id = id, !.heading = heading]

\* From<TextElement<Chapter>> for BlockList (with a title)
Chapter(b) ==
    <<WithId(Block(Lines(b + 1, NoRefs(1)), <<>>, "Single", -1, 2, "None"), b + 1),
      WithId(Block(Lines(b + 2, NoRefs(1)), <<>>, "Single", 0, CHAPTER_SKIP, "None"), b + 2),
      TocEntry(b + 3, 1, b + 1)>>

\* From<TextElement<Section>> for BlockList (padding_before 0, with a title)
Section(b) ==
    <<WithId(Block(Lines(b + 1, NoRefs(1)), <<>>, "Single", 0, 2, "None"), b + 1),
      WithId(Block(Lines(b + 2, NoRefs(1)), <<>>, "Single", 1, SECTION_SKIP, "None"), b + 2),
      TocEntry(b + 3, 2, b + 1)>>

\* From<TextElement<Part>> for BlockList (with a one-line title: height 4)
Part(b) ==
    <<WithId(Block(Lines(b + 1, NoRefs(1)), <<>>, "Single",
                   -(MIDDLE_LINE - 4 + 1), 2, "None"), b + 1),
      WithId(Block(Lines(b + 2, NoRefs(1)), <<>>, "Single", 1, PART_SKIP, "None"), b + 2),
      TocEntry(b + 3, 1, b + 1)>>

\* From<TextElement<Chapter>> for BlockList, with a title so long that it
\* fills 45 lines, in the chapter and in the table of contents
LongChapter(b) ==
    <<WithId(Block(Lines(b + 1, NoRefs(1)), <<>>, "Single", -1, 2, "None"), b + 1),
      WithId(Block(Lines(b + 2, NoRefs(45)), <<>>, "Single", 0, CHAPTER_SKIP, "None"), b + 2),
      TocEntry(b + 3, 45, b + 1)>>

ElementKinds ==
    {"p", "p-fill", "p-page", "p-double", "p-double-fill", "div", "pagebreak",
     "chapter", "section", "part", "title", "person", "contact",
     "p-note", "p-notes-defined", "p-notes-referenced", "p-long-note",
     "p-page-note", "chapter-long", "p-note-twice", "p-note-empty",
     "p-note-blank-par"}

ElementBlocks(e, b) ==
    CASE e = "p" -> <<P(b + 1, NoRefs(1), <<>>, "Single")>>
      [] e = "p-fill" -> <<P(b + 1, NoRefs(51), <<>>, "Single")>>
      \* a paragraph of as many lines as the height of a page
      [] e = "p-page" ->
            <<P(b + 1, NoRefs(TOP_LINE - BOTTOM_LINE + 1), <<>>, "Single")>>
      [] e = "p-double" -> <<P(b + 1, NoRefs(3), <<>>, "Double")>>
      [] e = "p-double-fill" -> <<P(b + 1, NoRefs(26), <<>>, "Double")>>
      \* From<EmptyElement<Div>> for Block
      [] e = "div" ->
            <<WithId(Block(Lines(b + 1, NoRefs(1)), <<>>, "Single", 1, 1, "None"), b + 1)>>
      \* From<EmptyElement<PageBreak>> for Block
      [] e = "pagebreak" ->
            <<WithId(Block(<<>>, <<>>, "Single", -1, 0, "None"), b + 1)>>
      [] e = "chapter" -> Chapter(b)
      [] e = "section" -> Section(b)
      [] e = "part" -> Part(b)
      [] e = "chapter-long" -> LongChapter(b)
      \* From<TextElement<Title>> for Block
      [] e = "title" ->
            <<WithId(Block(Lines(b + 1, NoRefs(1)), <<>>, "Single", 0, 2, "Head"), b + 1)>>
      \* From<ContainerElement<Person>> for Block
      [] e = "person" ->
            <<WithId(Block(Lines(b + 1, NoRefs(1)), <<>>, "Single", 3, 3, "Head"), b + 1)>>
      \* From<TextElement<Contact>> for Block
      [] e = "contact" ->
            <<WithId(Block(Lines(b + 1, <<<<"a">>, <<>>>>),
                           <<Footnote(b + 1, "a", FnShort)>>,
                           "Single", 0, 2, "Contact"), b + 1)>>
      \* a paragraph whose second line references its own footnote
      [] e = "p-note" ->
            <<P(b + 1, <<<<>>, <<"a">>>>, <<Footnote(b + 1, "a", FnShort)>>, "Single")>>
      \* a paragraph that defines two footnotes without referencing them
      [] e = "p-notes-defined" ->
            <<P(b + 1, NoRefs(1),
                <<Footnote(b + 1, "a", FnShort), Footnote(b + 1, "b", FnDouble)>>,
                "Single")>>
      \* a paragraph that references two labels on its first line and one of
      \* them again on its second line, and defines none
      [] e = "p-notes-referenced" ->
            <<P(b + 1, <<<<"a", "b">>, <<"a">>>>, <<>>, "Double")>>
      \* a paragraph with a footnote of 51 lines
      [] e = "p-long-note" ->
            <<P(b + 1, <<<<"a">>>>, <<Footnote(b + 1, "a", FnLong)>>, "Single")>>
      \* a paragraph with a footnote that is longer than the room of a page
      [] e = "p-page-note" ->
            <<P(b + 1, <<<<"a">>>>, <<Footnote(b + 1, "a", FnPage)>>, "Single")>>
      \* a paragraph whose line references its footnote twice
      [] e = "p-note-twice" ->
            <<P(b + 1, <<<<"a", "a">>>>, <<Footnote(b + 1, "a", FnShort)>>, "Single")>>
      \* a paragraph whose line carries a footnote of one paragraph and a
      \* footnote element without paragraphs
      [] e = "p-note-empty" ->
            <<P(b + 1, <<<<"a", "b">>>>,
                <<Footnote(b + 1, "a", FnShort), Footnote(b + 1, "b", FnEmpty)>>,
                "Single")>>
      \* a paragraph with a double-spaced footnote whose second paragraph has
      \* no token
      [] e = "p-note-blank-par" ->
            <<P(b + 1, <<<<"a">>>>, <<Footnote(b + 1, "a", FnBlankPar)>>, "Single")>>

(***************************************************************************)
(* Compositor::new and Compositor::run.  run's loop is taken element by    *)
(* element: one step consumes the blocks the formatter made of one         *)
(* element.  r = [c, contact, toc, composed, nblocks] is what an iteration *)
(* of the loop reads and writes.                                           *)
(***************************************************************************)
FirstPages == {1, 3}

\* Compositor::new
InitCompositor ==
    /\ pc = "new"
    /\ comp = [pages |-> <<>>, footnotes |-> <<>>, next_page_no |-> -1,
               last_padding_after |-> 0]
    /\ contact = <<>>
    /\ toc = <<>>
    /\ nblocks = 0
    /\ nelems = 0
    /\ composed = <<>>

run_block_ContactComposed(r, block) ==
    LET r1 == [r EXCEPT !.nblocks = @ + 1]
    IN  CASE block.tag = "ToC" ->
                [r1 EXCEPT !.toc = Append(@, <<cur_page(r.c).number, block>>)]
          [] OTHER ->
                [r1 EXCEPT !.c = compose(r.c, block),
                           !.composed = Append(@, block),
                           !.contact = IF block.tag = "Contact" THEN <<block>> ELSE @]

\* the body of `for block in blocks.into_iter()`
run_block(r, block) ==
    LET r1 == [r EXCEPT !.nblocks = @ + 1]
    IN  CASE block.tag = "Contact" -> [r1 EXCEPT !.contact = <<block>>]
          [] block.tag = "Head" ->
                [r1 EXCEPT !.c = compose(r.c, block),
                           !.composed = Append(@, block)]
          [] block.tag = "ToC" ->
                [r1 EXCEPT !.toc = Append(@, <<cur_page(r.c).number, block>>)]
          [] block.tag = "None" ->
                [r1 EXCEPT !.c = compose(r.c, block),
                           !.composed = Append(@, block)]

RECURSIVE run_blocks(_, _)
run_blocks(r, blocks) ==
    IF blocks = <<>> THEN r
    ELSE run_blocks(run_block(r, blocks[1]), Tail(blocks))

\* the entries compose_toc hands to compose, as it hands them over
RECURSIVE composed_toc_entries(_)
composed_toc_entries(blocks) ==
    IF blocks = <<>> THEN <<>>
    ELSE (IF blocks[1][2].lines # <<>>
          THEN <<toc_with_leader(blocks[1][1], blocks[1][2])>>
          ELSE <<>>) \o composed_toc_entries(Tail(blocks))

Init ==
    /\ tokens = <<>>
    /\ line_length = 1
    /\ lines = <<>>
    /\ alg = "none"
    /\ fits_i = 0
    /\ fits_x = 0
    /\ fits = <<>>
    /\ first_page \in FirstPages
    /\ has_structure \in BOOLEAN
    /\ InitCompositor
    /\ lut_text = <<>>
    /\ numerals = <<>>
    /\ lut_pc = "file"
    /\ lut_i = 0
    /\ lut_result = <<>>
    /\ word_count = <<>>
    /\ real_page_no = 1
    /\ output = <<>>
    /\ stack = <<>>
    /\ next_li_no = <<>>
    /\ lis = <<>>
    /\ nevents = 0
    /\ next_part_no = 1
    /\ next_chapter_no = 1
    /\ next_section_no = 1
    /\ heads = <<>>
    /\ entry_n = 0
    /\ entry_page_no = 0
    /\ entry_line = <<>>

\* run, up to the loop: the first page
RunStart ==
    /\ pc = "new"
    /\ comp' = IF comp.pages = <<>>
               THEN IF has_structure
                    THEN [start_a_new_page(comp) EXCEPT !.next_page_no = first_page]
                    ELSE start_a_new_page([comp EXCEPT !.next_page_no = first_page])
               ELSE comp
    /\ pc' = "flow"
    /\ UNCHANGED <<contact, first_page, has_structure, toc, nblocks, nelems, composed>>
    /\ UNCHANGED textvars
    /\ UNCHANGED lutvars
    /\ UNCHANGED writervars
    /\ UNCHANGED readervars
    /\ UNCHANGED leadervars

\* the compositor as compose_block enters its line loop for the block handed
\* to compose: the page is started, the padding pushed, the footnotes of the
\* block transferred
BeforeLines(c, block) ==
    LET c1 == IF block.padding_before < 0
              THEN [start_a_new_page(c) EXCEPT !.last_padding_after = 0]
              ELSE c
        padding == collapse_padding(top_padding(block), c1.last_padding_after)
        c2 == [c1 EXCEPT !.last_padding_after = block.padding_after]
    IN  [push_padding(c2, padding)
            EXCEPT !.footnotes = transfer_footnotes(@, block.footnotes)]

HasRefs(block) == \E i \in 1..Len(block.lines) : block.lines[i].note_refs # <<>>

\* Block::count_lines of one of the blocks evaluates lines.len() * 2 - 1 on
\* usize with no line
count_lines_underflows(blocks) ==
    \E j \in 1..Len(blocks) :
        blocks[j].line_spacing = "Double" /\ blocks[j].lines = <<>>

\* the counting loop of the line applies count_lines to such a footnote
counting_underflows(c, line) ==
    \E j \in 1..Len(line.note_refs) :
        /\ line.note_refs[j] \in DOMAIN c.footnotes
        /\ count_lines_underflows(c.footnotes[line.note_refs[j]])

\* the lines with note references from line i of the block on, each with the
\* compositor as its loop iteration finds it
RECURSIVE LineChecks(_, _, _)
LineChecks(c, block, i) ==
    IF i >= Len(block.lines) THEN {}
    ELSE (IF block.lines[i + 1].note_refs # <<>>
          THEN {[c |-> c, line |-> block.lines[i + 1]]}
          ELSE {})
         \cup LineChecks(compose_line(c, block, i), block, i + 1)

RECURSIVE BlockChecks(_, _)
BlockChecks(r, blocks) ==
    IF \A k \in 1..Len(blocks) : ~HasRefs(blocks[k]) THEN {}
    ELSE (IF blocks[1].tag \in {"None", "Head"} /\ HasRefs(blocks[1])
          THEN LineChecks(BeforeLines(r.c, blocks[1]), blocks[1], 0)
          ELSE {})
         \cup BlockChecks(run_block(r, blocks[1]), Tail(blocks))

\* composing the blocks reaches a counting loop that underflows
blocks_underflow(r, blocks) ==
    \E chk \in BlockChecks(r, blocks) : counting_underflows(chk.c, chk.line)

\* run's loop over the blocks of the next element.  Where count_lines
\* underflows, a build with overflow checks panics and the run ends; a build
\* without them wraps, and the sum count_lines(&BlockList) returns wraps
\* back to the value the integers give.
ComposeElement ==
    /\ pc = "flow"
    /\ nelems < MaxElements
    /\ \E e \in ElementKinds :
          LET r0 == [c |-> comp, contact |-> contact, toc |-> toc,
                     composed |-> composed, nblocks |-> nblocks]
          IN  \/ \E r \in {run_blocks(r0, ElementBlocks(e, nblocks))} :
                    /\ comp' = r.c
                    /\ contact' = r.contact
                    /\ toc' = r.toc
                    /\ composed' = r.composed
                    /\ nblocks' = r.nblocks
                    /\ nelems' = nelems + 1
                    /\ pc' = pc
              \/ /\ blocks_underflow(r0, ElementBlocks(e, nblocks))
                 /\ pc' = "panic"
                 /\ UNCHANGED <<comp, contact, toc, composed, nblocks, nelems>>
    /\ UNCHANGED <<first_page, has_structure>>
    /\ UNCHANGED textvars
    /\ UNCHANGED lutvars
    /\ UNCHANGED writervars
    /\ UNCHANGED readervars
    /\ UNCHANGED leadervars

\* run, after the loop: the table of contents
RunFinish ==
    /\ pc = "flow"
    /\ IF toc # <<>>
       THEN /\ comp' = compose_toc(comp, toc, nblocks + 1)
            /\ composed' = composed \o <<toc_header(nblocks + 1)>>
                                    \o composed_toc_entries(toc)
       ELSE UNCHANGED <<comp, composed>>
    /\ pc' = "done"
    /\ UNCHANGED <<contact, first_page, has_structure, toc, nblocks, nelems>>
    /\ UNCHANGED textvars
    /\ UNCHANGED lutvars
    /\ UNCHANGED writervars
    /\ UNCHANGED readervars
    /\ UNCHANGED leadervars

Next == RunStart \/ ComposeElement \/ RunFinish

Spec == Init /\ [][Next]_vars

(***************************************************************************)
(* The dot leader of a ToC entry (compose_toc).  A line is the sequence of *)
(* its characters; the text of the entry is n characters "x".              *)
(***************************************************************************)
LEFT_MARGIN == 10
RIGHT_MARGIN == 74

MaxEntryLength == 64

\* the page numbers stored with the entries: cur_page().number
EntryPageNumbers == {-1, 0, 5, 12, 345}

Repeat(chars, k) == [j \in 1..(k * Len(chars)) |-> chars[((j - 1) % Len(chars)) + 1]]

DigitChar(d) == <<"0", "1", "2", "3", "4", "5", "6", "7", "8", "9">>[d + 1]

\* format!("{}", page_no)
RECURSIVE Digits(_)
Digits(k) ==
    IF k < 0 THEN <<"-">> \o Digits(-k)
    ELSE IF k < 10 THEN <<DigitChar(k)>>
         ELSE Digits(k \div 10) \o <<DigitChar(k % 10)>>

leader_segment_NoAfterPad(n, page_no) ==
    LET width == RIGHT_MARGIN - LEFT_MARGIN + 1  \* line_length
        p == Len(Digits(page_no))
        spaces_remaining == width - n - p
        before_pad == IF n % 2 = 1 THEN <<" ">> ELSE <<" ", " ">>
        remaining == spaces_remaining - Len(before_pad)
    IN  IF spaces_remaining < 0 \/ remaining < 0
        THEN <<"panic">>
        ELSE before_pad \o Repeat(<<".", " ">>, remaining \div 2) \o Digits(page_no)

\* the segment compose_toc pushes onto the first line of an entry of n
\* characters; spaces_remaining is a usize: a subtraction below 0 ends the
\* program (or wraps around, and the program runs out of memory)
leader_segment(n, page_no) ==
    LET width == RIGHT_MARGIN - LEFT_MARGIN + 1  \* line_length
        p == Len(Digits(page_no))
        spaces_remaining == width - n - p
        before_pad == IF n % 2 = 1 THEN <<" ">> ELSE <<" ", " ">>
        remaining == spaces_remaining - Len(before_pad)
        after_pad == IF p % 2 = 0 THEN <<" ">> ELSE <<>>
    IN  IF spaces_remaining < 0 \/ remaining < 0
        THEN <<"panic">>
        ELSE before_pad \o Repeat(<<".", " ">>, remaining \div 2)
                 \o after_pad \o Digits(page_no)

InitLeader ==
    /\ entry_n \in 0..MaxEntryLength
    /\ entry_page_no \in EntryPageNumbers
    /\ entry_line = <<>>
    /\ tokens = <<>>
    /\ line_length = 1
    /\ lines = <<>>
    /\ alg = "none"
    /\ fits_i = 0
    /\ fits_x = 0
    /\ fits = <<>>
    /\ first_page = 1
    /\ has_structure = FALSE
    /\ pc = "new"
    /\ comp = [pages |-> <<>>, footnotes |-> <<>>, next_page_no |-> -1,
               last_padding_after |-> 0]
    /\ contact = <<>>
    /\ toc = <<>>
    /\ nblocks = 0
    /\ nelems = 0
    /\ composed = <<>>
    /\ lut_text = <<>>
    /\ numerals = <<>>
    /\ lut_pc = "file"
    /\ lut_i = 0
    /\ lut_result = <<>>
    /\ word_count = <<>>
    /\ real_page_no = 1
    /\ output = <<>>
    /\ stack = <<>>
    /\ next_li_no = <<>>
    /\ lis = <<>>
    /\ nevents = 0
    /\ next_part_no = 1
    /\ next_chapter_no = 1
    /\ next_section_no = 1
    /\ heads = <<>>

\* line.segments.push(..): the line with the leader and the page number
AddLeader ==
    /\ entry_line = <<>>
    /\ entry_line' = Repeat(<<"x">>, entry_n) \o leader_segment(entry_n, entry_page_no)
    /\ UNCHANGED <<entry_n, entry_page_no>>
    /\ UNCHANGED textvars
    /\ UNCHANGED compvars
    /\ UNCHANGED lutvars
    /\ UNCHANGED writervars
    /\ UNCHANGED readervars

NextLeader == AddLeader

SpecLeader == InitLeader /\ [][NextLeader]_vars

(***************************************************************************)
(* The table of Roman numerals (lut.rs).  The data file is a sequence of   *)
(* characters; a string is the sequence of its characters.                 *)
(***************************************************************************)
MaxText == 4

MaxQuery == 3

Characters == {"I", "V", " "}

FileTexts == UNION {[1..n -> Characters] : n \in 0..MaxText}

\* str::split_whitespace: the maximal runs of non-whitespace characters
RECURSIVE split_loop(_, _, _)
split_loop(t, word, acc) ==
    IF t = <<>>
    THEN IF word = <<>> THEN acc ELSE Append(acc, word)
    ELSE IF t[1] = " "
         THEN split_loop(Tail(t), <<>>, IF word = <<>> THEN acc ELSE Append(acc, word))
         ELSE split_loop(Tail(t), Append(word, t[1]), acc)

split_whitespace(t) == split_loop(t, <<>>, <<>>)

\* RomanNumerals::numeral
numeral(table, i) ==
    IF i >= 1 /\ i < Len(table)
    THEN <<table[(i - 1) + 1]>>
    ELSE <<>>

InitLut ==
    /\ lut_text \in FileTexts
    /\ numerals = <<>>
    /\ lut_pc = "file"
    /\ lut_i = 0
    /\ lut_result = <<>>
    /\ word_count = <<>>
    /\ real_page_no = 1
    /\ output = <<>>
    /\ stack = <<>>
    /\ next_li_no = <<>>
    /\ lis = <<>>
    /\ nevents = 0
    /\ next_part_no = 1
    /\ next_chapter_no = 1
    /\ next_section_no = 1
    /\ heads = <<>>
    /\ tokens = <<>>
    /\ line_length = 1
    /\ lines = <<>>
    /\ alg = "none"
    /\ fits_i = 0
    /\ fits_x = 0
    /\ fits = <<>>
    /\ first_page = 1
    /\ has_structure = FALSE
    /\ InitCompositor
    /\ entry_n = 0
    /\ entry_page_no = 0
    /\ entry_line = <<>>

\* RomanNumerals::new
New ==
    /\ lut_pc = "file"
    /\ numerals' = split_whitespace(lut_text)
    /\ lut_pc' = "loaded"
    /\ UNCHANGED <<lut_text, lut_i, lut_result>>
    /\ UNCHANGED textvars
    /\ UNCHANGED compvars
    /\ UNCHANGED writervars
    /\ UNCHANGED readervars
    /\ UNCHANGED leadervars

\* a call of ROMAN_NUMERALS.numeral(i)
Numeral ==
    /\ lut_pc \in {"loaded", "asked"}
    /\ \E i \in 0..MaxQuery :
          /\ lut_i' = i
          /\ lut_result' = numeral(numerals, i)
    /\ lut_pc' = "asked"
    /\ UNCHANGED <<lut_text, numerals>>
    /\ UNCHANGED textvars
    /\ UNCHANGED compvars
    /\ UNCHANGED writervars
    /\ UNCHANGED readervars
    /\ UNCHANGED leadervars

NextLut == New \/ Numeral

SpecLut == InitLut /\ [][NextLut]_vars

(***************************************************************************)
(* The writer (document/writer.rs): Writer::run takes the pages of a       *)
(* Typescript one by one; of what it writes for a page the model keeps     *)
(* whether the slug line, the contact block and the word count are there.  *)
(***************************************************************************)
MaxPages == 3

PageNumbers == -1..2

\* the page lists of a Typescript: the fields of Page are public
PageLists ==
    UNION {{[k \in 1..n |-> Page(f[k])] : f \in [1..n -> PageNumbers]} : n \in 0..MaxPages}

\* the page number of the slug line start_a_new_page writes, if it writes one
writer_start_a_new_page_Positive(page_no, structure, a_contact, a_word_count) ==
    IF page_no > 0 THEN <<page_no>> ELSE <<>>

writer_start_a_new_page(page_no, structure, a_contact, a_word_count) ==
    IF \/ page_no > 1
       \/ (page_no = 1 /\ structure)
       \/ (page_no = 1 /\ ~structure /\ a_contact = <<>> /\ a_word_count = <<>>)
    THEN <<page_no>>
    ELSE <<>>

\* a Typescript handed to Writer::new
InitWriter ==
    /\ comp \in {[pages |-> ps, footnotes |-> <<>>, next_page_no |-> -1,
                  last_padding_after |-> 0] : ps \in PageLists}
    /\ contact \in {<<>>, ElementBlocks("contact", 0)}
    /\ word_count \in {<<>>, <<0>>}
    /\ has_structure \in BOOLEAN
    /\ real_page_no = 1
    /\ output = <<>>
    /\ stack = <<>>
    /\ next_li_no = <<>>
    /\ lis = <<>>
    /\ nevents = 0
    /\ next_part_no = 1
    /\ next_chapter_no = 1
    /\ next_section_no = 1
    /\ heads = <<>>
    /\ pc = "done"
    /\ first_page = 1
    /\ toc = <<>>
    /\ nblocks = 0
    /\ nelems = 0
    /\ composed = <<>>
    /\ tokens = <<>>
    /\ line_length = 1
    /\ lines = <<>>
    /\ alg = "none"
    /\ fits_i = 0
    /\ fits_x = 0
    /\ fits = <<>>
    /\ lut_text = <<>>
    /\ numerals = <<>>
    /\ lut_pc = "file"
    /\ lut_i = 0
    /\ lut_result = <<>>
    /\ entry_n = 0
    /\ entry_page_no = 0
    /\ entry_line = <<>>

\* one iteration of the page loop of Writer::run
WritePage ==
    /\ real_page_no <= Len(comp.pages)
    /\ LET i == real_page_no - 1
           page == comp.pages[i + 1]
       IN  output' = Append(output,
               [number |-> page.number,
                slug |-> writer_start_a_new_page(page.number, has_structure,
                                                 contact, word_count),
                contact |-> (i = 0 /\ contact # <<>>),
                word_count |-> (i = 0 /\ word_count # <<>>)])
    /\ real_page_no' = real_page_no + 1
    /\ UNCHANGED word_count
    /\ UNCHANGED textvars
    /\ UNCHANGED compvars
    /\ UNCHANGED lutvars
    /\ UNCHANGED readervars
    /\ UNCHANGED leadervars

NextWriter == WritePage

SpecWriter == InitWriter /\ [][NextWriter]_vars

(***************************************************************************)
(* The reader (document/reader.rs): the events of the lists of a document. *)
(* A list is opened in the body (the empty stack stands for it) or in a    *)
(* list item, a list item in a list.                                       *)
(***************************************************************************)
MaxEvents == 6

\* the values of the attributes startNo (ol) and number (li), if given
StartNos == {<<>>, <<3>>}

LiNumbers == {<<>>, <<7>>}

\* self.stack.last(), as the name of the element
stack_last == IF stack = <<>> THEN "body" ELSE stack[Len(stack)]

InitReader ==
    /\ stack = <<>>
    /\ next_li_no = <<>>
    /\ lis = <<>>
    /\ nevents = 0
    /\ next_part_no = 1
    /\ next_chapter_no = 1
    /\ next_section_no = 1
    /\ heads = <<>>
    /\ tokens = <<>>
    /\ line_length = 1
    /\ lines = <<>>
    /\ alg = "none"
    /\ fits_i = 0
    /\ fits_x = 0
    /\ fits = <<>>
    /\ first_page = 1
    /\ has_structure = FALSE
    /\ InitCompositor
    /\ lut_text = <<>>
    /\ numerals = <<>>
    /\ lut_pc = "file"
    /\ lut_i = 0
    /\ lut_result = <<>>
    /\ word_count = <<>>
    /\ real_page_no = 1
    /\ output = <<>>
    /\ entry_n = 0
    /\ entry_page_no = 0
    /\ entry_line = <<>>

\* Event::Start, b"ol"
StartOl ==
    /\ nevents < MaxEvents
    /\ stack_last \in {"body", "li"}
    /\ \E startNo \in StartNos :
          LET start_no == IF startNo # <<>> THEN startNo[1] ELSE 1
          IN  next_li_no' = <<start_no>>
    /\ stack' = Append(stack, "ol")
    /\ nevents' = nevents + 1
    /\ UNCHANGED <<lis, next_part_no, next_chapter_no, next_section_no, heads>>
    /\ UNCHANGED <<textvars, compvars, lutvars, writervars>>
    /\ UNCHANGED leadervars

\* Event::Start, b"ul"
StartUl ==
    /\ nevents < MaxEvents
    /\ stack_last \in {"body", "li"}
    /\ stack' = Append(stack, "ul")
    /\ nevents' = nevents + 1
    /\ UNCHANGED <<next_li_no, lis, next_part_no, next_chapter_no, next_section_no, heads>>
    /\ UNCHANGED <<textvars, compvars, lutvars, writervars>>
    /\ UNCHANGED leadervars

\* the number of the Li and the next value of next_li_no
li_number(next, attr) ==
    IF next # <<>>
    THEN IF attr # <<>>
         THEN [number |-> <<attr[1]>>, next_li_no |-> <<attr[1] + 1>>]
         ELSE [number |-> <<next[1]>>, next_li_no |-> <<next[1] + 1>>]
    ELSE [number |-> <<>>, next_li_no |-> next]

\* Event::Start, b"li"
StartLi ==
    /\ nevents < MaxEvents
    /\ stack_last \in {"ol", "ul"}
    /\ \E attr \in LiNumbers :
          /\ next_li_no' = li_number(next_li_no, attr).next_li_no
          /\ lis' = Append(lis, [parent |-> stack_last,
                                 number |-> li_number(next_li_no, attr).number])
    /\ stack' = Append(stack, "li")
    /\ nevents' = nevents + 1
    /\ UNCHANGED <<next_part_no, next_chapter_no, next_section_no, heads>>
    /\ UNCHANGED <<textvars, compvars, lutvars, writervars>>
    /\ UNCHANGED leadervars

\* the number of parts, chapters and sections of a document
MaxHeads == 4

\* the values of the attribute number of part, chapter and section, if
\* given; they stay far from the ends of i32, so that number + 1 is the sum
\* of the integers
HeadNumbers == {<<>>, <<4>>, <<0>>}

\* the number of the element and the next value of the counter
head_number(next, attr) ==
    IF attr # <<>>
    THEN [number |-> attr[1], next |-> attr[1] + 1]
    ELSE [number |-> next, next |-> next + 1]

HeadElement(elem, attr, number) == [elem |-> elem, attr |-> attr, number |-> number]

\* b"part": the number, and the chapter and section numbers set back
read_part(attr) ==
    /\ next_part_no' = head_number(next_part_no, attr).next
    /\ next_chapter_no' = 1
    /\ next_section_no' = 1
    /\ heads' = Append(heads, HeadElement("part", attr, head_number(next_part_no, attr).number))

read_chapter_KeepSectionNo(attr) ==
    /\ next_chapter_no' = head_number(next_chapter_no, attr).next
    /\ heads' = Append(heads, HeadElement("chapter", attr,
                                          head_number(next_chapter_no, attr).number))
    /\ UNCHANGED <<next_part_no, next_section_no>>

\* b"chapter": the number, and the section number set back
read_chapter(attr) ==
    /\ next_chapter_no' = head_number(next_chapter_no, attr).next
    /\ next_section_no' = 1
    /\ heads' = Append(heads, HeadElement("chapter", attr,
                                          head_number(next_chapter_no, attr).number))
    /\ UNCHANGED next_part_no

\* b"section": the number
read_section(attr) ==
    /\ next_section_no' = head_number(next_section_no, attr).next
    /\ heads' = Append(heads, HeadElement("section", attr,
                                          head_number(next_section_no, attr).number))
    /\ UNCHANGED <<next_part_no, next_chapter_no>>

\* Event::Start, b"part"
StartPart ==
    /\ nevents < MaxEvents
    /\ Len(heads) < MaxHeads
    /\ stack_last = "body"
    /\ \E attr \in HeadNumbers : read_part(attr)
    /\ stack' = Append(stack, "part")
    /\ nevents' = nevents + 1
    /\ UNCHANGED <<next_li_no, lis>>
    /\ UNCHANGED <<textvars, compvars, lutvars, writervars>>
    /\ UNCHANGED leadervars

\* Event::Start, b"chapter"
StartChapter ==
    /\ nevents < MaxEvents
    /\ Len(heads) < MaxHeads
    /\ stack_last = "body"
    /\ \E attr \in HeadNumbers : read_chapter(attr)
    /\ stack' = Append(stack, "chapter")
    /\ nevents' = nevents + 1
    /\ UNCHANGED <<next_li_no, lis>>
    /\ UNCHANGED <<textvars, compvars, lutvars, writervars>>
    /\ UNCHANGED leadervars

\* Event::Start, b"section"
StartSection ==
    /\ nevents < MaxEvents
    /\ Len(heads) < MaxHeads
    /\ stack_last = "body"
    /\ \E attr \in HeadNumbers : read_section(attr)
    /\ stack' = Append(stack, "section")
    /\ nevents' = nevents + 1
    /\ UNCHANGED <<next_li_no, lis>>
    /\ UNCHANGED <<textvars, compvars, lutvars, writervars>>
    /\ UNCHANGED leadervars

\* Event::Empty, b"part": push and pop
EmptyPart ==
    /\ nevents < MaxEvents
    /\ Len(heads) < MaxHeads
    /\ stack_last = "body"
    /\ \E attr \in HeadNumbers : read_part(attr)
    /\ nevents' = nevents + 1
    /\ UNCHANGED <<stack, next_li_no, lis>>
    /\ UNCHANGED <<textvars, compvars, lutvars, writervars>>
    /\ UNCHANGED leadervars

\* Event::Empty, b"chapter": push and pop
EmptyChapter ==
    /\ nevents < MaxEvents
    /\ Len(heads) < MaxHeads
    /\ stack_last = "body"
    /\ \E attr \in HeadNumbers : read_chapter(attr)
    /\ nevents' = nevents + 1
    /\ UNCHANGED <<stack, next_li_no, lis>>
    /\ UNCHANGED <<textvars, compvars, lutvars, writervars>>
    /\ UNCHANGED leadervars

\* Event::Empty, b"section": push and pop
EmptySection ==
    /\ nevents < MaxEvents
    /\ Len(heads) < MaxHeads
    /\ stack_last = "body"
    /\ \E attr \in HeadNumbers : read_section(attr)
    /\ nevents' = nevents + 1
    /\ UNCHANGED <<stack, next_li_no, lis>>
    /\ UNCHANGED <<textvars, compvars, lutvars, writervars>>
    /\ UNCHANGED leadervars

\* Event::End: pop
End ==
    /\ nevents < MaxEvents
    /\ stack # <<>>
    /\ stack' = SubSeq(stack, 1, Len(stack) - 1)
    /\ nevents' = nevents + 1
    /\ UNCHANGED <<next_li_no, lis, next_part_no, next_chapter_no, next_section_no, heads>>
    /\ UNCHANGED <<textvars, compvars, lutvars, writervars>>
    /\ UNCHANGED leadervars

NextReader ==
    \/ StartOl \/ StartUl \/ StartLi
    \/ StartPart \/ StartChapter \/ StartSection
    \/ EmptyPart \/ EmptyChapter \/ EmptySection
    \/ End

SpecReader == InitReader /\ [][NextReader]_vars

(***************************************************************************)
(* Properties of the line breakers                                         *)
(***************************************************************************)
IsBreakCandidate(tok) == intersects(tok.frm, "MLB") \/ intersects(tok.frm, "DLB")

\* a run of tokens with no break candidate before its last token
IsUnbreakableUnit(line) ==
    \A k \in 1..(Len(line.toks) - 1) : ~IsBreakCandidate(line.toks[k])

\* C1: every line linebreak_fill returns is no longer than the budget, unless
\* the line is a single unbreakable unit (no break candidate before its last
\* token) that is itself longer than the budget.
C1_FillWithinBudget ==
    alg = "fill" =>
        \A n \in 1..Len(lines) :
            \/ length(lines[n]) <= line_length
            \/ IsUnbreakableUnit(lines[n])

\* fill produced several lines, one of them holds a break candidate before
\* its last token and fills the budget exactly, another one overflows it
C1_Witness ==
    /\ alg = "fill"
    /\ Len(lines) >= 2
    /\ \E n \in 1..Len(lines) :
          /\ ~IsUnbreakableUnit(lines[n])
          /\ length(lines[n]) = line_length
    /\ \E n \in 1..Len(lines) : length(lines[n]) > line_length

RECURSIVE FlattenLines(_)
FlattenLines(ls) == IF ls = <<>> THEN <<>> ELSE ls[1].toks \o FlattenLines(Tail(ls))

\* ids of the input tokens that occur in no returned line
RemovedIds == {k \in 0..(Len(tokens) - 1) :
                  \A m \in 1..Len(FlattenLines(lines)) : FlattenLines(lines)[m].id # k}

\* token k lies strictly inside a returned line
InsideALine(k) ==
    \E n \in 1..Len(lines) :
        /\ \E m \in 1..Len(lines[n].toks) : lines[n].toks[m].id < k
        /\ \E m \in 1..Len(lines[n].toks) : lines[n].toks[m].id > k

\* C2: for fill, balance and hang the tokens of the returned lines, in order,
\* are the input tokens without every MandatoryBreak token and without the
\* discard-on-break discretionary tokens at which a break was placed; nothing
\* else is dropped, duplicated or reordered.
C2_LinesCoverTokens ==
    alg # "none" =>
        LET out == FlattenLines(lines)
        IN  /\ \A m \in 1..Len(out) : out[m] = tokens[out[m].id + 1]
            /\ \A m \in 1..(Len(out) - 1) : out[m].id < out[m + 1].id
            /\ \A k \in 0..(Len(tokens) - 1) :
                  intersects(tokens[k + 1].frm, "MLB") => k \in RemovedIds
            /\ \A k \in RemovedIds :
                  \/ intersects(tokens[k + 1].frm, "MLB")
                  \/ /\ intersects(tokens[k + 1].frm, "DLB")
                     /\ intersects(tokens[k + 1].frm, "DOB")
                     /\ ~InsideALine(k)
            \* a discard-on-break token that ends a line was not broken at:
            \* the break belongs to the removed token behind it, or the input ends
            /\ \A n \in 1..Len(lines) :
                  LET last == lines[n].toks[Len(lines[n].toks)]
                  IN  (intersects(last.frm, "DLB") /\ intersects(last.frm, "DOB"))
                          => \/ last.id = Len(tokens) - 1
                             \/ (last.id + 1) \in RemovedIds

\* a hanging break dropped a space, a mandatory break was dropped as well,
\* and a retained break candidate (hyphen) survived
C2_Witness ==
    /\ alg = "hang"
    /\ Len(lines) >= 3
    /\ \E k \in RemovedIds : intersects(tokens[k + 1].frm, "DOB")
    /\ \E k \in RemovedIds : intersects(tokens[k + 1].frm, "MLB")

\* the non-empty runs of tokens between the MandatoryBreak tokens, in order
RECURSIVE RunsBetweenBreaks(_, _)
RunsBetweenBreaks(ts, run) ==
    IF ts = <<>>
    THEN IF run = <<>> THEN <<>> ELSE <<run>>
    ELSE IF intersects(ts[1].frm, "MLB")
         THEN (IF run = <<>> THEN <<>> ELSE <<run>>) \o RunsBetweenBreaks(Tail(ts), <<>>)
         ELSE RunsBetweenBreaks(Tail(ts), Append(run, ts[1]))

\* C11: with a budget of at least the total token length linebreak_fill
\* returns exactly one line per non-empty run of tokens between MandatoryBreak
\* tokens, in order, without the MandatoryBreak tokens.
C11_AmpleBudgetBreaksOnlyAtMandatory ==
    (alg = "fill" /\ line_length >= SumLen(tokens)) =>
        [n \in 1..Len(lines) |-> lines[n].toks] = RunsBetweenBreaks(tokens, <<>>)

\* "foo", MandatoryBreak, "bar" with an ample budget: the two lines "foo"
\* and "bar"
C11_Witness ==
    /\ alg = "fill"
    /\ line_length >= SumLen(tokens)
    /\ Len(tokens) = 3
    /\ tokens[1].len = 3 /\ tokens[1].frm = {}
    /\ intersects(tokens[2].frm, "MLB")
    /\ tokens[3].len = 3 /\ tokens[3].frm = {}
    /\ Len(lines) = 2
    /\ lines[1].toks = <<tokens[1]>>
    /\ lines[2].toks = <<tokens[3]>>

\* C12: in the output of linebreak_hang the first line has no indent and every
\* other line begins with an indent of exactly INDENT columns.
C12_HangIndentsAllButFirst ==
    alg = "hang" =>
        \A n \in 1..Len(lines) :
            lines[n].indent = (IF n = 1 THEN 0 ELSE INDENT)

\* a hanging paragraph of three lines
C12_Witness ==
    /\ alg = "hang"
    /\ Len(lines) = 3
    /\ lines[1].indent = 0
    /\ lines[2].indent = INDENT
    /\ lines[3].indent = INDENT

\* C13: linebreak_hang with budget w breaks the first line against w and every
\* later line against w - min(INDENT, w - 1), with or without MandatoryBreak
\* tokens: the tokens of each line after the first (its indent left out) are
\* no longer than w - min(INDENT, w - 1), unless the line is a single
\* unbreakable unit.
C13_HangLaterLinesUseReducedBudget ==
    alg = "hang" =>
        /\ Len(lines) >= 1 =>
              \/ length(lines[1]) <= line_length
              \/ IsUnbreakableUnit(lines[1])
        /\ \A n \in 2..Len(lines) :
              \/ SumLen(lines[n].toks) <= line_length - Min(INDENT, line_length - 1)
              \/ IsUnbreakableUnit(lines[n])

\* C14: every line linebreak_balance returns is no longer than the budget,
\* unless the line is a single unbreakable unit that itself exceeds the budget.
C14_BalanceWithinBudget ==
    alg = "balance" =>
        \A n \in 1..Len(lines) :
            \/ length(lines[n]) <= line_length
            \/ IsUnbreakableUnit(lines[n])

\* the number of rows linebreak_balance computes for the tokens
BalanceHeight == (SumLen(tokens) \div line_length) + 1

\* C15: for tokens of total length L without MandatoryBreak and a budget
\* w >= 1, linebreak_balance returns exactly h = L \div w + 1 lines.
C15_BalanceReturnsHeightLines ==
    (alg = "balance" /\ \A k \in 1..Len(tokens) : ~intersects(tokens[k].frm, "MLB")) =>
        Len(lines) = BalanceHeight

\* the length of the first unit of a line: its tokens up to its first break
\* candidate, the candidate counted only if it is retained at a break
RECURSIVE UnitLength(_)
UnitLength(toks) ==
    IF toks = <<>> THEN 0
    ELSE IF IsBreakCandidate(toks[1])
         THEN IF intersects(toks[1].frm, "DOB") THEN 0 ELSE toks[1].len
         ELSE toks[1].len + UnitLength(Tail(toks))

\* the token at which the break between line n and line n + 1 was placed: the
\* last token of line n if no token lies between the two lines, else the
\* dropped token in front of line n + 1
BreakToken(n) == tokens[(lines[n + 1].toks[1].id - 1) + 1]

BreakTokenDiscarded(n) ==
    lines[n + 1].toks[1].id - 1 > lines[n].toks[Len(lines[n].toks)].id

\* what the break between line n and line n + 1 kept off line n
Unbroken(n) ==
    length(lines[n])
        + (IF BreakTokenDiscarded(n) THEN BreakToken(n).len ELSE 0)
        + UnitLength(lines[n + 1].toks)

\* C27: linebreak_fill breaks at a discretionary candidate only when the next
\* unit does not fit: for two consecutive lines separated by a discretionary
\* break, the length of the earlier line, plus the length of the break token
\* if it was discarded, plus the length of the first unit of the next line
\* exceeds the budget.
C27_FillBreaksOnlyWhenNextUnitDoesNotFit ==
    alg = "fill" =>
        \A n \in 1..(Len(lines) - 1) :
            (/\ intersects(BreakToken(n).frm, "DLB")
             /\ ~intersects(BreakToken(n).frm, "MLB"))
                => Unbroken(n) > line_length

\* a break at a discarded space and a break at a retained hyphen, each placed
\* because the next unit would have overflown the budget by one column
C27_Witness ==
    /\ alg = "fill"
    /\ Len(lines) = 3
    /\ \E n \in 1..2 :
          /\ BreakTokenDiscarded(n)
          /\ intersects(BreakToken(n).frm, "DOB")
          /\ Unbroken(n) = line_length + 1
    /\ \E n \in 1..2 :
          /\ ~BreakTokenDiscarded(n)
          /\ BreakToken(n) = Hyphen @@ [id |-> BreakToken(n).id]
          /\ Unbroken(n) = line_length + 1

\* the index of the first break candidate behind token i, or the length of
\* the slice if there is none
NextCandidate(i) ==
    LET js == {j \in (i + 1)..(Len(tokens) - 1) : IsBreakCandidate(tokens[j + 1])}
    IN  IF js = {} THEN Len(tokens) ELSE CHOOSE j \in js : \A k \in js : j <= k

\* the column reached at the next break candidate behind token i: x, token i,
\* the tokens up to the candidate, and the candidate if it is kept at a break
ColumnAtNextCandidate(i, x) ==
    LET j == NextCandidate(i)
    IN  x + SumLen(Slice(tokens, i, j))
          + (IF /\ j < Len(tokens)
                /\ intersects(tokens[j + 1].frm, "DLB")
                /\ ~intersects(tokens[j + 1].frm, "DOB")
             THEN tokens[j + 1].len
             ELSE 0)

\* C28: next_word_fits(tokens, w, i, x) is true exactly when x, plus the
\* length of token i, plus the lengths of the tokens behind i up to the next
\* break candidate (mandatory or discretionary, or the end of the slice) is
\* at most w, the candidate's own length being added only if it is a
\* discretionary break without DiscardOnBreak.
C28_NextWordFitsLooksToNextCandidate ==
    fits # <<>> =>
        (fits[1] <=> ColumnAtNextCandidate(fits_i, fits_x) <= line_length)

\* a word, then a word and a hyphen behind it: the hyphen is counted, and
\* the three tokens fill the budget exactly
C28_Witness ==
    /\ fits = <<TRUE>>
    /\ Len(tokens) = 3
    /\ fits_i = 0
    /\ tokens[2].frm = {}
    /\ tokens[3].frm = {"DLB"}
    /\ fits_x + SumLen(tokens) = line_length

\* C29: no line breaker (fill, balance, hang) returns a Line that was built
\* from an empty token range: every returned line holds at least one token.
C29_NoLineFromEmptyRange ==
    alg # "none" =>
        \A n \in 1..Len(lines) : lines[n].toks # <<>>

\* the slice begins with a mandatory break and holds two mandatory breaks in
\* a row (two empty ranges); the lines returned are the runs between them
C29_Witness ==
    /\ alg # "none"
    /\ Len(tokens) >= 4
    /\ intersects(tokens[1].frm, "MLB")
    /\ \E k \in 2..(Len(tokens) - 1) :
          /\ intersects(tokens[k].frm, "MLB")
          /\ intersects(tokens[k + 1].frm, "MLB")
    /\ Len(lines) = 2
    /\ \A n \in 1..Len(lines) : lines[n].toks # <<>>

(***************************************************************************)
(* Properties of the compositor                                            *)
(***************************************************************************)
Range(f) == {f[k] : k \in DOMAIN f}

ThePages == comp.pages

\* the positions <<page, row>> (1-based) of the content rows and footer rows
ContentPositions ==
    UNION {{<<p, r>> : r \in 1..Len(ThePages[p].lines)} : p \in 1..Len(ThePages)}

FooterPositions ==
    UNION {{<<p, r>> : r \in 1..Len(ThePages[p].footer)} : p \in 1..Len(ThePages)}

FooterRow(pos) == ThePages[pos[1]].footer[pos[2]]

ContentRow(pos) == ThePages[pos[1]].lines[pos[2]]

\* pos1 is read before pos2
Before(pos1, pos2) == pos1[1] < pos2[1] \/ (pos1[1] = pos2[1] /\ pos1[2] < pos2[2])

\* where line idx of block blk stands
LinePositions(blk, idx) ==
    UNION {{<<p, r>> : r \in {q \in 1..Len(ThePages[p].lines) :
                                /\ ThePages[p].lines[q].src # "none"
                                /\ ThePages[p].lines[q].blk = blk
                                /\ ThePages[p].lines[q].idx = idx}} :
           p \in 1..Len(ThePages)}

LinePosition(blk, idx) == CHOOSE pos \in LinePositions(blk, idx) : TRUE

RECURSIVE ContentLines(_)
ContentLines(pgs) ==
    IF pgs = <<>> THEN <<>>
    ELSE SelectSeq(pgs[1].lines, LAMBDA row : row # None) \o ContentLines(Tail(pgs))

RECURSIVE BlockLines(_)
BlockLines(blocks) ==
    IF blocks = <<>> THEN <<>> ELSE blocks[1].lines \o BlockLines(Tail(blocks))

\* C3: the non-blank content rows of all pages, read in page order and row
\* order, are exactly the lines of the composed blocks (untagged and Head
\* blocks in input order, then the ToC header and entries), each once and in
\* its original order.
C3_LinesKeptInOrder ==
    pc = "done" => ContentLines(ThePages) = BlockLines(composed)

\* a run with a table of contents in which a block was split across pages
C3_Witness ==
    /\ pc = "done"
    /\ toc # <<>>
    /\ Len(ThePages) >= 3
    /\ \E k \in 1..Len(composed) :
          /\ Len(composed[k].lines) >= 2
          /\ LinePosition(composed[k].id, 1)[1]
                 # LinePosition(composed[k].id, Len(composed[k].lines))[1]

\* the footnote rows (not the blank rows) of the footer of page p
NoteRowsOn(p) == {row \in Range(ThePages[p].footer) : row.src = "note"}

\* the content lines, of block d or a later block, that reference the label
Referencing(label, d) ==
    {pos \in ContentPositions :
        /\ ContentRow(pos).src = "line"
        /\ ContentRow(pos).blk >= d
        /\ label \in Range(ContentRow(pos).note_refs)}

\* the first line, at or after block d, that references the label: the line
\* at which compose_block takes the footnote (d, label) out of the side table
Consumer(label, d) ==
    CHOOSE pos \in Referencing(label, d) :
        \A other \in Referencing(label, d) : ~Before(other, pos)

\* the footnotes the composed blocks carried: <<block id, label, blocks>>
DefinedFootnotes ==
    UNION {{<<composed[k].id, composed[k].footnotes[f][1], composed[k].footnotes[f][2]>> :
               f \in 1..Len(composed[k].footnotes)} : k \in 1..Len(composed)}

\* the definition (d, label) was still pending when its consumer was composed:
\* no block after d, up to the consumer's block, defined the label again
PendingAtConsumer(label, d) ==
    /\ Referencing(label, d) # {}
    /\ \A fn \in DefinedFootnotes :
          ~(fn[2] = label /\ fn[1] > d /\ fn[1] <= ContentRow(Consumer(label, d)).blk)

\* C4: when a line references a pending footnote, all rows of the footnote
\* are in the footer of the page that receives the line: every footnote row
\* of a footer shares its page with the line that consumed the footnote, and
\* every line of a consumed footnote is in the footer of its consumer's page.
C4_FootnoteOnThePageOfItsLine ==
    /\ \A p \in 1..Len(ThePages) : \A row \in NoteRowsOn(p) :
          /\ Referencing(row.label, row.blk) # {}
          /\ Consumer(row.label, row.blk)[1] = p
    /\ \A fn \in DefinedFootnotes :
          PendingAtConsumer(fn[2], fn[1]) =>
              \A j \in 1..Len(fn[3]) : \A k \in 1..Len(fn[3][j].lines) :
                  fn[3][j].lines[k] \in NoteRowsOn(Consumer(fn[2], fn[1])[1])

\* composed[k + 1] has padding_before >= 0 and its first line stands on the
\* page of the last line of composed[k]
FollowsOnSamePage(k) ==
    /\ k \in 1..(Len(composed) - 1)
    /\ composed[k].lines # <<>>
    /\ composed[k + 1].lines # <<>>
    /\ composed[k + 1].padding_before >= 0
    /\ LinePositions(composed[k].id, Len(composed[k].lines)) # {}
    /\ LinePositions(composed[k + 1].id, 1) # {}
    /\ LinePosition(composed[k].id, Len(composed[k].lines))[1]
           = LinePosition(composed[k + 1].id, 1)[1]

\* the rows between the last line of composed[k] and the first line of
\* composed[k + 1], which stand on the same page
RowsBetween(k) ==
    LET from == LinePosition(composed[k].id, Len(composed[k].lines))
        to == LinePosition(composed[k + 1].id, 1)
    IN  {ThePages[from[1]].lines[r] : r \in (from[2] + 1)..(to[2] - 1)}

GapBetween(k) ==
    LinePosition(composed[k + 1].id, 1)[2]
        - LinePosition(composed[k].id, Len(composed[k].lines))[2] - 1

\* C5: if block B with padding_before >= 0 is composed directly after block A
\* and B's first line lands on the page of A's last line, the rows between the
\* two lines are blank and their number is max(A.padding_after,
\* B.padding_before), not the sum.
C5_PaddingCollapses ==
    \A k \in 1..(Len(composed) - 1) :
        FollowsOnSamePage(k) =>
            /\ RowsBetween(k) \subseteq {None}
            /\ GapBetween(k) = Max(composed[k].padding_after,
                                   composed[k + 1].padding_before)

\* padding_after 2 met padding_before 3 on one page, with 3 blank rows in
\* between
C5_Witness ==
    \E k \in 1..(Len(composed) - 1) :
        /\ FollowsOnSamePage(k)
        /\ composed[k].padding_after = 2
        /\ composed[k + 1].padding_before = 3
        /\ GapBetween(k) = 3

\* the number of the page on which the heading line of block `heading` stands
HeadingPageNumber(heading) == ThePages[LinePosition(heading, 1)[1]].number

\* C6: the page number stored with every table-of-contents entry (and printed
\* in its line of the table of contents) is the number of the page on which
\* the heading line of its chapter was placed.
C6_TocPageIsHeadingPage ==
    /\ \A k \in 1..Len(toc) :
          toc[k][1] = HeadingPageNumber(toc[k][2].heading)
    /\ pc = "done" =>
          \A pos \in ContentPositions :
              ContentRow(pos).leader # <<>> =>
                  \E k \in 1..Len(toc) :
                      /\ toc[k][2].id = ContentRow(pos).blk
                      /\ ContentRow(pos).idx = 1
                      /\ ContentRow(pos).leader
                             = <<HeadingPageNumber(toc[k][2].heading)>>

\* the positions of the rows that hold a line of block id, from page p on,
\* as they are read
RECURSIVE RowsOfBlock(_, _)
RowsOfBlock(id, p) ==
    IF p > Len(ThePages) THEN <<>>
    ELSE SelectSeq([r \in 1..Len(ThePages[p].lines) |-> <<p, r>>],
                   LAMBDA pos : /\ ContentRow(pos).src # "none"
                                /\ ContentRow(pos).blk = id)
         \o RowsOfBlock(id, p + 1)

\* where the lines of the block stand: line i at PositionsOf(block)[i]
PositionsOf(block) ==
    LET rows == RowsOfBlock(block.id, 1)
    IN  IF /\ Len(rows) = Len(block.lines)
           /\ \A j \in 1..Len(rows) : ContentRow(rows[j]).idx = j
        THEN rows
        ELSE [i \in 1..Len(block.lines) |->
                 rows[CHOOSE j \in 1..Len(rows) : ContentRow(rows[j]).idx = i]]

\* a blank row directly follows the line at pos on its page: the blank row
\* compose_block interleaves (padding follows only the last line of a block)
BlankAfter(pos) ==
    /\ pos[2] < Len(ThePages[pos[1]].lines)
    /\ ThePages[pos[1]].lines[pos[2] + 1] = None

\* the content rows emitted for the block: its lines and the blank rows
\* interleaved between them
EmittedRows(block) ==
    LET at == PositionsOf(block)
    IN  Len(block.lines)
            + Cardinality({i \in 1..(Len(block.lines) - 1) : BlankAfter(at[i])})

\* the lines of the block, not the last, after which the page changes
PageBreaksInside(block) ==
    LET at == PositionsOf(block)
    IN  {i \in 1..(Len(block.lines) - 1) : at[i][1] # at[i + 1][1]}

\* the lines of a double-spaced block, not the last, that stand in the last
\* row of a page but one
LinesInLastRowButOne(block) ==
    LET at == PositionsOf(block)
    IN  {i \in 1..(Len(block.lines) - 1) :
            /\ block.line_spacing = "Double"
            /\ at[i][2] = ThePages[at[i][1]].height - 1}

StartsAPage(k) ==
    /\ k \in 1..Len(composed)
    /\ composed[k].padding_before < 0
    /\ composed[k].lines # <<>>

\* C8: a block with padding_before = -k (k >= 1) and at least one line
\* starts a new page whatever the padding_after of the block before it: its
\* first line stands on a page that holds no line of an earlier block, with
\* exactly k - 1 blank rows before it.
C8_NegativePaddingStartsAPage ==
    \A k \in 1..Len(composed) :
        StartsAPage(k) =>
            LET pos == LinePosition(composed[k].id, 1)
            IN  /\ pos[1] > 1
                /\ pos[2] = -composed[k].padding_before
                /\ \A r \in 1..(pos[2] - 1) : ThePages[pos[1]].lines[r] = None
                /\ \A j \in 1..(k - 1) :
                      LET at == PositionsOf(composed[j])
                      IN  \A i \in 1..Len(composed[j].lines) : at[i][1] < pos[1]

\* a block with padding_before = -24 was composed behind a block with a
\* positive padding_after: 23 blank rows stand before its first line
C8_Witness ==
    \E k \in 2..Len(composed) :
        /\ StartsAPage(k)
        /\ composed[k].padding_before = -24
        /\ composed[k - 1].padding_after > 0
        /\ composed[k - 1].lines # <<>>
        /\ LinePosition(composed[k].id, 1)[2] = 24
        /\ LinePosition(composed[k - 1].id, 1)[1] = LinePosition(composed[k].id, 1)[1] - 1

\* the pages, the block, with the note references of every line taken away
StripRefs(pgs) ==
    [p \in 1..Len(pgs) |->
        [pgs[p] EXCEPT !.lines = [r \in 1..Len(@) |-> [@[r] EXCEPT !.note_refs = <<>>]]]]

WithoutRefs(block) ==
    [block EXCEPT !.lines = [i \in 1..Len(@) |-> [@[i] EXCEPT !.note_refs = <<>>]]]

\* the block carries references, and no footnote is pending in c or defined
\* by the block for any label its lines reference
OnlyUnresolvedRefs(c, block) ==
    /\ block.footnotes = <<>>
    /\ \E i \in 1..Len(block.lines) : block.lines[i].note_refs # <<>>
    /\ \A i \in 1..Len(block.lines) :
          \A label \in Range(block.lines[i].note_refs) : label \notin DOMAIN c.footnotes

\* C9: lines whose note references all lack a pending footnote are composed
\* exactly as the same lines without note references: a step of run that
\* composes a block of such lines leaves the pages (rows and footers) as
\* composing the block without its references does.
C9_UnresolvedRefsChangeNothing ==
    [][(/\ pc = "flow"
        /\ Len(composed') = Len(composed) + 1
        /\ OnlyUnresolvedRefs(comp, composed'[Len(composed')]))
          => StripRefs(comp'.pages)
                 = compose(comp, WithoutRefs(composed'[Len(composed')])).pages]_vars

\* the rows of the footer of page p that hold a footnote line
NotePositionsOn(p) ==
    {r \in 1..Len(ThePages[p].footer) : ThePages[p].footer[r].src = "note"}

\* C10: a footnote definition is rendered at most once, in the footer of the
\* page of the first line at or after its defining block that references its
\* label; a later reference renders nothing and a definition that no line
\* references is in no footer.
C10_FootnoteRenderedOnceAtFirstReference ==
    /\ \A p \in 1..Len(ThePages) :
          /\ Cardinality(NoteRowsOn(p)) = Cardinality(NotePositionsOn(p))
          /\ \A q \in 1..(p - 1) : NoteRowsOn(p) \cap NoteRowsOn(q) = {}
    /\ \A p \in 1..Len(ThePages) : \A row \in NoteRowsOn(p) :
          /\ Referencing(row.label, row.blk) # {}
          /\ Consumer(row.label, row.blk)[1] = p

\* C16: without structure the first page is numbered first_page; with
\* structure the first page has the number -1 and the next page is numbered
\* first_page; every further page of the main flow has the number of the page
\* before it plus one.
C16_MainFlowPageNumbers ==
    pc = "flow" =>
        LET ps == comp.pages
        IN  /\ ps[1].number = (IF has_structure THEN -1 ELSE first_page)
            /\ (has_structure /\ Len(ps) >= 2) => ps[2].number = first_page
            /\ \A k \in (IF has_structure THEN 3 ELSE 2)..Len(ps) :
                   ps[k].number = ps[k - 1].number + 1

\* a structured document of three pages that starts numbering at 3
C16_Witness ==
    /\ pc = "flow"
    /\ has_structure
    /\ first_page = 3
    /\ Len(comp.pages) = 3
    /\ comp.pages[1].number = -1
    /\ comp.pages[2].number = 3
    /\ comp.pages[3].number = 4

\* C17: an unstructured run over a single untagged, single-spaced block
\* without footnotes, with padding_before >= 0 and n lines gives exactly one
\* page, holding all n lines, for every n from 1 to 54; a second page is
\* started only for n > 54.
C17_OnePageUpTo54Lines ==
    (/\ pc # "new"
     /\ ~has_structure
     /\ nblocks = 1
     /\ Len(composed) = 1
     /\ composed[1].tag = "None"
     /\ composed[1].line_spacing = "Single"
     /\ composed[1].footnotes = <<>>
     /\ \A i \in 1..Len(composed[1].lines) : composed[1].lines[i].note_refs = <<>>
     /\ composed[1].padding_before >= 0
     /\ Len(composed[1].lines) \in 1..(TOP_LINE - BOTTOM_LINE + 1)) =>
        /\ Len(comp.pages) = 1
        /\ Len(comp.pages[1].lines) >= Len(composed[1].lines)

\* the ids of the ToC-tagged blocks met so far
TocBlockIds == {toc[k][2].id : k \in 1..Len(toc)}

\* the rows of all pages and footers
AllRows ==
    {ContentRow(pos) : pos \in ContentPositions} \cup {FooterRow(pos) : pos \in FooterPositions}

TocHeaderPositions == {pos \in ContentPositions : ContentRow(pos).src = "toc-header"}

\* the lines of entry k as the table of contents shows them: the page number
\* stored with the entry is attached to its first line
TocEntryLines(k) ==
    [i \in 1..Len(toc[k][2].lines) |->
        IF i = 1 THEN [toc[k][2].lines[i] EXCEPT !.leader = <<toc[k][1]>>]
        ELSE toc[k][2].lines[i]]

RECURSIVE TocLinesFrom(_)
TocLinesFrom(k) ==
    IF k > Len(toc) THEN <<>> ELSE TocEntryLines(k) \o TocLinesFrom(k + 1)

\* C18: while the main flow is composed a ToC-tagged block contributes no row
\* to any page; after the last input block a ToC section is appended if and
\* only if a ToC-tagged block occurred: it starts on a new page with the
\* header line "Table of Contents", behind all rows of the main flow, and the
\* entries follow in the order in which they were met.
C18_TocDeferredToTrailingSection ==
    /\ pc = "flow" =>
          \A row \in AllRows :
              /\ row.src # "toc-header"
              /\ row.src # "none" => row.blk \notin TocBlockIds
    /\ (pc = "done" /\ toc = <<>>) =>
          \A row \in AllRows : row.src # "toc-header"
    /\ (pc = "done" /\ toc # <<>>) =>
          /\ Cardinality(TocHeaderPositions) = 1
          /\ \A h \in TocHeaderPositions :
                /\ h[2] = 1
                /\ \A pos \in ContentPositions :
                      (ContentRow(pos).src = "line" /\ ContentRow(pos).blk \notin TocBlockIds)
                          => pos[1] < h[1]
                /\ LET section == ContentLines(SubSeq(ThePages, h[1], Len(ThePages)))
                   IN  /\ Tail(section) = TocLinesFrom(1)
                       /\ section[1].src = "toc-header"

\* a chapter and a section gave two entries; the table of contents stands
\* on the last page, the header in its first row
C18_Witness ==
    /\ pc = "done"
    /\ Len(toc) = 2
    /\ Len(ThePages) >= 2
    /\ <<Len(ThePages), 1>> \in TocHeaderPositions
    /\ \E r1, r2 \in 1..Len(ThePages[Len(ThePages)].lines) :
          /\ r1 < r2
          /\ ThePages[Len(ThePages)].lines[r1] = TocEntryLines(1)[1]
          /\ ThePages[Len(ThePages)].lines[r2] = TocEntryLines(2)[1]

\* the step of run's loop that consumes the block of a contact element
ContactStep ==
    /\ pc = "flow"
    /\ nelems' = nelems + 1
    /\ \E r \in {run_blocks([c |-> comp, contact |-> contact, toc |-> toc,
                             composed |-> composed, nblocks |-> nblocks],
                            ElementBlocks("contact", nblocks))} :
          /\ comp' = r.c
          /\ contact' = r.contact
          /\ toc' = r.toc
          /\ composed' = r.composed
          /\ nblocks' = r.nblocks

\* C19: a Contact-tagged block is never composed: the step that consumes it
\* adds no row to any page and leaves the pending-footnote table, the page
\* list and last_padding_after unchanged; the contact field then holds that
\* block, and no other step of run changes it.
C19_ContactSetAside ==
    [][/\ ContactStep =>
             /\ comp'.pages = comp.pages
             /\ comp'.footnotes = comp.footnotes
             /\ comp'.last_padding_after = comp.last_padding_after
             /\ contact' = ElementBlocks("contact", nblocks)
       /\ ~ContactStep => contact' = contact]_vars

\* a contact block with a footnote of its own was consumed last, while
\* footnotes of an earlier block are pending and rows are on the page
C19_Witness ==
    /\ pc = "done"
    /\ contact # <<>>
    /\ contact[1].tag = "Contact"
    /\ contact[1].footnotes # <<>>
    /\ contact[1].id = nblocks
    /\ nblocks >= 2
    /\ comp.footnotes # <<>>
    /\ comp.last_padding_after # contact[1].padding_after
    /\ \E pos \in ContentPositions : ContentRow(pos).src = "line"

(***************************************************************************)
(* Properties of the table of Roman numerals                               *)
(***************************************************************************)
\* C20: numeral(i) returns the i-th entry of the table for every i from 1 to
\* the number N of entries read from the data file, and None for i = 0 and
\* for every i > N.
C20_NumeralReturnsEntry ==
    lut_pc = "asked" =>
        lut_result = (IF 1 <= lut_i /\ lut_i <= Len(numerals)
                      THEN <<numerals[lut_i]>>
                      ELSE <<>>)

\* the row of the last non-blank content line of a page, 0 if it has none
LastLineRow(page) ==
    LET rows == {0} \cup {r \in 1..Len(page.lines) : page.lines[r].src # "none"}
    IN  CHOOSE r \in rows : \A q \in rows : q <= r

\* C23: in every reachable state, on every page with a non-empty footer the
\* content rows up to the last non-blank content line, the 2 divider rows and
\* the footer rows together are no more than the height of the page.
C23_ContentAboveFooter ==
    pc # "new" =>
        \A p \in 1..Len(ThePages) :
            ThePages[p].footer # <<>> =>
                LastLineRow(ThePages[p]) + 2 + Len(ThePages[p].footer)
                    <= ThePages[p].height

\* C23, amended: the bound holds on every page with a non-empty footer that
\* holds a content line; a page without content lines can hold a footer that
\* is longer than the page.
C23_ContentLinesAboveFooter ==
    pc # "new" =>
        \A p \in 1..Len(ThePages) :
            (ThePages[p].footer # <<>> /\ LastLineRow(ThePages[p]) >= 1) =>
                LastLineRow(ThePages[p]) + 2 + Len(ThePages[p].footer)
                    <= ThePages[p].height

\* a page whose last content line stands right above the divider rows of
\* its footer, with one row to spare
C23_Witness ==
    /\ pc = "done"
    /\ \E p \in 1..Len(ThePages) :
          /\ ThePages[p].footer # <<>>
          /\ LastLineRow(ThePages[p]) >= 2
          /\ LastLineRow(ThePages[p]) + 2 + Len(ThePages[p].footer)
                 = ThePages[p].height - 1

\* the page started for composed block k (negative padding_before, a line)
PageStartedFor(k) == ThePages[LinePosition(composed[k].id, 1)[1]]

\* C24: a new page that is started because a block has a negative
\* padding_before gets the unnumbered marker (a number <= 0) instead of the
\* incremented running page number.
C24_NegativePaddingPageUnnumbered ==
    \A k \in 1..Len(composed) :
        StartsAPage(k) => PageStartedFor(k).number <= 0

\* C24, amended: a page started in the main flow because a block has a
\* negative padding_before gets the running page number like any other page:
\* first_page if it is the page after the unnumbered first page of a
\* structured document, else the number of the page before it plus one.
C24_NegativePaddingPageNumbered ==
    \A k \in 1..Len(composed) :
        (StartsAPage(k) /\ composed[k].tag # "ToC") =>
            LET p == LinePosition(composed[k].id, 1)[1]
            IN  /\ p >= 2
                /\ ThePages[p].number =
                      (IF has_structure /\ p = 2 THEN first_page
                       ELSE ThePages[p - 1].number + 1)

\* the heading of a chapter started page 2 of a document without structure:
\* the page has the number first_page + 1
C24_Witness ==
    /\ ~has_structure
    /\ \E k \in 1..Len(composed) :
          /\ StartsAPage(k)
          /\ composed[k].tag # "ToC"
          /\ composed[k].padding_before = -1
          /\ LinePosition(composed[k].id, 1)[1] = 2
          /\ PageStartedFor(k).number = first_page + 1
          /\ PageStartedFor(k).number > 0

\* C25: the page that starts the ToC section is unnumbered (number -1,
\* whatever the number of the last page of the main flow was), and every
\* later page of the ToC section has a positive number.
C25_TocNumberingResumesPositive ==
    (pc = "done" /\ toc # <<>>) =>
        \A h \in TocHeaderPositions :
            /\ ThePages[h[1]].number = -1
            /\ \A p \in (h[1] + 1)..Len(ThePages) : ThePages[p].number > 0

\* the rows of its page that are free behind the row at pos
FreeAfter(pos) == ThePages[pos[1]].height - pos[2]

\* exactly one blank row was appended behind the line at pos: the next line
\* of the block stands two rows further down, or the blank row is the last
\* row of the page and the next line stands on a later page
OneBlankBehind(pos, next) ==
    /\ BlankAfter(pos)
    /\ \/ next = <<pos[1], pos[2] + 2>>
       \/ next[1] > pos[1] /\ Len(ThePages[pos[1]].lines) = pos[2] + 1

\* no row was appended behind the line at pos: the next line of the block
\* stands in the next row, or the line is the last row of its page and the
\* next line stands on a later page
NoBlankBehind(pos, next) ==
    \/ next = <<pos[1], pos[2] + 1>>
    \/ next[1] > pos[1] /\ Len(ThePages[pos[1]].lines) = pos[2]

\* the last line of the block composed last is the last row of the last page
NothingBehindLastLine ==
    (pc = "flow" /\ composed # <<>> /\ composed[Len(composed)].lines # <<>>) =>
        LET block == composed[Len(composed)]
            pos == PositionsOf(block)[Len(block.lines)]
        IN  pos = <<Len(ThePages), Len(ThePages[Len(ThePages)].lines)>>

C26_EarlierPagesNeverRevisited ==
    [][/\ Len(comp'.pages) >= Len(comp.pages)
       /\ \A p \in 1..(Len(comp.pages) - 1) :
              /\ comp'.pages[p].lines = comp.pages[p].lines
              /\ comp'.pages[p].footer = comp.pages[p].footer
              /\ comp'.pages[p].number = comp.pages[p].number]_vars

\* two elements composed onto three pages or more, a footnote on a page
\* after the first
C26_Witness ==
    /\ nelems = 2
    /\ Len(ThePages) >= 3
    /\ \E p \in 2..Len(ThePages) :
          ThePages[p].footer # <<>> /\ ThePages[p].lines # <<>>

\* the footnote checks of the elements run's loop can consume next
FootnoteChecks ==
    IF pc = "flow"
    THEN UNION {BlockChecks([c |-> comp, contact |-> contact, toc |-> toc,
                             composed |-> composed, nblocks |-> nblocks],
                            ElementBlocks(e, nblocks)) : e \in ElementKinds}
    ELSE {}

\* footer_height as the counting loop computes it
PredictedFooterHeight(chk) ==
    footer_height_loop(chk.c.footnotes, chk.line.note_refs, 0, 0)

FirstCheckBreaks(chk) == footnote_remainder(chk.c, chk.line) < 1

AfterFirstCheck(chk) ==
    IF FirstCheckBreaks(chk) THEN start_a_new_page(chk.c) ELSE chk.c

AfterPlacement(chk) == place_footnotes(AfterFirstCheck(chk), chk.line.note_refs)

SomePending(chk) ==
    \E j \in 1..Len(chk.line.note_refs) : chk.line.note_refs[j] \in DOMAIN chk.c.footnotes

\* the rows the placement loop appends for the footnotes of the line, the
\* blank row that separates them from an older footer left out (the first
\* check counts it apart)
AppendedFooterRows(chk) ==
    Len(cur_page(AfterPlacement(chk)).footer)
        - Len(cur_page(AfterFirstCheck(chk)).footer)
        - (IF cur_page(AfterFirstCheck(chk)).footer # <<>> /\ SomePending(chk)
           THEN 1 ELSE 0)

\* C31: for each line with note references the footer height computed
\* before the first capacity check equals the number of rows the placement
\* loop then appends to the footer for the footnotes of the line, and when
\* the first check starts no new page the second check (for the line
\* itself) starts none either.
C31_PredictedFooterHeightIsAppended ==
    \A chk \in FootnoteChecks :
        /\ PredictedFooterHeight(chk) = AppendedFooterRows(chk)
        /\ ~FirstCheckBreaks(chk) => line_remainder(AfterPlacement(chk)) >= 1

\* C32: in every reachable state of the compositor each page has height 54
\* and holds at most height rows in its content area, the blank rows of the
\* padding and of the double spacing counted.
C32_ContentRowsWithinHeight ==
    \A p \in 1..Len(ThePages) :
        /\ ThePages[p].height = TOP_LINE - BOTTOM_LINE + 1
        /\ ThePages[p].height = 54
        /\ Len(ThePages[p].lines) <= ThePages[p].height

\* C33: every ToC entry with padding_before 0 and padding_after 1 whose
\* height fits a page is placed wholly on one page: no line of the entry
\* stands on another page than its first line.
C33_TocEntryOnOnePage ==
    pc = "done" =>
        \A k \in 1..Len(toc) :
            LET block == toc[k][2]
                at == PositionsOf(block)
            IN  (/\ block.lines # <<>>
                 /\ block.padding_before = 0
                 /\ block.padding_after = 1
                 /\ block_count_lines(block) <= TOP_LINE - BOTTOM_LINE + 1)
                    => \A i \in 1..Len(block.lines) : at[i][1] = at[1][1]

\* the rows of the footer of page p that hold the first line of a footnote,
\* in row order
FirstNoteRows(p) ==
    SelectSeq([r \in 1..Len(ThePages[p].footer) |-> r],
              LAMBDA r : /\ ThePages[p].footer[r].src = "note"
                         /\ ThePages[p].footer[r].idx = 101)

SameFootnote(row1, row2) == row1.blk = row2.blk /\ row1.label = row2.label

\* the place of the label in the note references of a line
RefIndex(line, label) ==
    CHOOSE j \in 1..Len(line.note_refs) :
        /\ line.note_refs[j] = label
        /\ \A i \in 1..(j - 1) : line.note_refs[i] # label

\* the footnote of row1 is referenced before the footnote of row2
ReferencedBefore(row1, row2) ==
    LET pos1 == Consumer(row1.label, row1.blk)
        pos2 == Consumer(row2.label, row2.blk)
    IN  \/ Before(pos1, pos2)
        \/ /\ pos1 = pos2
           /\ RefIndex(ContentRow(pos1), row1.label) < RefIndex(ContentRow(pos2), row2.label)

\* the footnotes of the footer of page p stand in the order of their first
\* references
FooterInReferenceOrder(p) ==
    LET first == FirstNoteRows(p)
        f == ThePages[p].footer
    IN  \A i \in 1..(Len(first) - 1) :
            /\ Referencing(f[first[i]].label, f[first[i]].blk) # {}
            /\ Referencing(f[first[i + 1]].label, f[first[i + 1]].blk) # {}
            /\ ReferencedBefore(f[first[i]], f[first[i + 1]])

\* rows of different footnotes never touch, and no two blank rows touch
FooterSeparatedByOneBlank(p) ==
    LET f == ThePages[p].footer
    IN  \A r \in 1..(Len(f) - 1) :
            /\ (f[r] # None /\ f[r + 1] # None) => SameFootnote(f[r], f[r + 1])
            /\ ~(f[r] = None /\ f[r + 1] = None)

FooterBeginsWithALine(p) ==
    ThePages[p].footer # <<>> => ThePages[p].footer[1] # None

FooterEndsWithALine(p) ==
    ThePages[p].footer # <<>> => ThePages[p].footer[Len(ThePages[p].footer)] # None

\* C35: in every reachable state, in the footer of each page the footnotes
\* stand in the order of their first references, consecutive footnotes are
\* separated by exactly one blank row, and the footer neither begins nor
\* ends with a blank row.
C35_FooterInOrderAndSeparated ==
    \A p \in 1..Len(ThePages) :
        /\ FooterInReferenceOrder(p)
        /\ FooterSeparatedByOneBlank(p)
        /\ FooterBeginsWithALine(p)
        /\ FooterEndsWithALine(p)

\* the compositor as the double-spacing test of line i finds it: the line
\* is pushed
AtSpacingTest(c, block, i) ==
    LET c1 == compose_line_footnotes(c, block.lines[i + 1])
        c2 == IF line_remainder(c1) < 1 THEN start_a_new_page(c1) ELSE c1
    IN  push_line(c2, Some(block.lines[i + 1]))

\* the compositor at each evaluation of height - lines.len(): the test is
\* reached for every line but the last of a double-spaced block
RECURSIVE LineSpacingTests(_, _, _)
LineSpacingTests(c, block, i) ==
    IF i >= Len(block.lines) - 1 \/ block.line_spacing # "Double" THEN {}
    ELSE {AtSpacingTest(c, block, i)}
         \cup LineSpacingTests(compose_line(c, block, i), block, i + 1)

RECURSIVE BlockSpacingTests(_, _)
BlockSpacingTests(r, blocks) ==
    IF \A k \in 1..Len(blocks) : blocks[k].line_spacing # "Double" THEN {}
    ELSE (IF blocks[1].tag \in {"None", "Head"}
          THEN LineSpacingTests(BeforeLines(r.c, blocks[1]), blocks[1], 0)
          ELSE {})
         \cup BlockSpacingTests(run_block(r, blocks[1]), Tail(blocks))

\* the double-spacing tests of the elements run's loop can consume next
SpacingTests ==
    IF pc = "flow"
    THEN UNION {BlockSpacingTests([c |-> comp, contact |-> contact, toc |-> toc,
                                   composed |-> composed, nblocks |-> nblocks],
                                  ElementBlocks(e, nblocks)) : e \in ElementKinds}
    ELSE {}

SpacingTestsWithinHeight ==
    \A c \in SpacingTests : Len(cur_page(c).lines) <= cur_page(c).height

\* C36: in every run of the compositor no unsigned subtraction underflows:
\* no run ends in the panic of an underflow, and height - lines.len() in the
\* double-spacing test of compose_block is evaluated only where lines.len()
\* is no more than height.  (The remaining-capacity values are integers
\* here, as they are i32 in the code.)
C36_NoUnsignedUnderflow ==
    /\ pc # "panic"
    /\ SpacingTestsWithinHeight

(***************************************************************************)
(* Properties of the reader: the numbers of chapters and sections          *)
(***************************************************************************)
\* the last element before heads[k] that is of one of the kinds, 0 if none
LastBefore(k, kinds) ==
    LET js == {j \in 1..(k - 1) : heads[j].elem \in kinds}
    IN  IF js = {} THEN 0 ELSE CHOOSE j \in js : \A i \in js : i <= j

\* the number the claim gives the chapter heads[k] if it has no number
\* attribute
AutomaticChapterNumber(k) ==
    LET j == LastBefore(k, {"part", "chapter"})
    IN  IF j = 0 \/ heads[j].elem = "part" THEN 1 ELSE heads[j].number + 1

\* the number the claim gives the section heads[k] if it has no number
\* attribute
AutomaticSectionNumber(k) ==
    LET j == LastBefore(k, {"part", "chapter", "section"})
    IN  IF j = 0 \/ heads[j].elem # "section" THEN 1 ELSE heads[j].number + 1

\* C37: in every reachable state of the reader, every chapter read without
\* a number attribute has the number 1 if it is the first chapter after a
\* part start or the document start, and else the number of the chapter
\* before it plus 1, whether that number was given or automatic; every
\* section read without a number attribute has the number 1 if it is the
\* first section after a chapter start, a part start or the document start,
\* and else the number of the section before it plus 1.
C37_AutomaticNumbersAreConsecutive ==
    \A k \in 1..Len(heads) :
        heads[k].attr = <<>> =>
            /\ heads[k].elem = "chapter" => heads[k].number = AutomaticChapterNumber(k)
            /\ heads[k].elem = "section" => heads[k].number = AutomaticSectionNumber(k)

\* a section with a given number, then a chapter with a given number, then
\* an automatic chapter, which continues the chapter, and an automatic
\* section, which starts again at 1
C37_Witness ==
    \E k \in 1..Len(heads) :
        /\ k >= 4
        /\ heads[k - 3].elem = "section" /\ heads[k - 3].attr # <<>>
        /\ heads[k - 2].elem = "chapter" /\ heads[k - 2].attr # <<>>
        /\ heads[k - 1].elem = "chapter" /\ heads[k - 1].attr = <<>>
        /\ heads[k - 1].number = heads[k - 2].number + 1
        /\ heads[k].elem = "section" /\ heads[k].attr = <<>>
        /\ heads[k].number = 1

(***************************************************************************)
(* Properties of the dot leader                                            *)
(***************************************************************************)
\* the number of characters the page number prints in
PrintedWidth == Len(Digits(entry_page_no))

\* C34: for every ToC entry whose first line has n characters and whose page
\* number prints in p characters with n + p <= 63, the first line with the
\* leader added has exactly RIGHT_MARGIN - LEFT_MARGIN + 1 = 65 characters,
\* the page number stands at its end (it ends at the right margin), and
\* every dot of the leader stands at an even offset from the start of the
\* line, whatever the parities of n and p.
C34_LeaderEndsAtRightMargin ==
    (entry_line # <<>> /\ entry_n + PrintedWidth <= 63) =>
        /\ Len(entry_line) = RIGHT_MARGIN - LEFT_MARGIN + 1
        /\ Len(entry_line) = 65
        /\ SubSeq(entry_line, 65 - PrintedWidth + 1, 65) = Digits(entry_page_no)
        /\ SubSeq(entry_line, 1, entry_n) = Repeat(<<"x">>, entry_n)
        /\ \A k \in 1..Len(entry_line) :
              entry_line[k] = "." => (k - 1) % 2 = 0

\* a line of odd length with a page number of even width, with dots
C34_Witness ==
    /\ entry_line # <<>>
    /\ entry_n = 21
    /\ entry_page_no = 12
    /\ Len(entry_line) = 65
    /\ entry_line[23] = "."
    /\ entry_line[61] = "."
    /\ entry_line[63] = " "

C22_OnlyOrderedItemsNumbered ==
    \A k \in 1..Len(lis) :
        /\ lis[k].parent = "ul" => lis[k].number = <<>>
        /\ lis[k].number # <<>> => lis[k].parent = "ol"

====
